---------------------------- MODULE Spec2Model ----------------------------
(***************************************************************************)
(* bigchess core: the per-game move tree (core/src/game.rs) and the        *)
(* multi-game state container (core/src/state.rs).                         *)
(*                                                                         *)
(* The chess rules come from the shakmaty library.  They are modelled here *)
(* by a small board (3 files, 4 ranks) with the real piece movement,       *)
(* legality (a move may not leave the own king attacked), captures,        *)
(* promotion, check and checkmate, and with shakmaty's SAN rendering and   *)
(* SAN / UCI resolution.  Strings are sequences of one-character strings.  *)
(***************************************************************************)
EXTENDS Integers, Sequences, FiniteSets, TLC

VARIABLES
    current_line,      \* Game.current_line : Vec<SanPlus>
    initial_position,  \* Game.initial_position : shakmaty::Chess
    game_tree,         \* Game.game_tree : GameTree
    last,              \* the last call on the Game and what it returned
    before,            \* current_line as it was when the last call started
    inner,             \* StateHandle.inner : HashMap<String, Option<Mutex<Game>>>
    called,            \* the last call on the State and what it returned
    created,           \* the ids that have ever been a key of inner
    closed,            \* the ids on which close_game has succeeded
    pc,                \* where main and the handler it awaits are
    new_line,          \* handler: the line read and not yet dispatched
    response,          \* handler: the response dispatched and not yet written
    fatal_error,       \* main: the Err the handler returned
    stdin_lines,       \* the input: lines read so far, and whether it is at its end
    stdout,            \* the responses written, first to last
    threads,           \* each thread that holds a clone of the handle: its call, the
                       \* guards it holds and where it is in the call
    native_inner,      \* native backend, StateHandle.inner : Vec<Option<Box<Mutex<Game>>>>
    native_called      \* native backend: the last call and what it returned

gameVars == <<current_line, initial_position, game_tree, last, before>>

stateVars == <<inner, called, created, closed>>

handlerVars == <<pc, new_line, response, fatal_error, stdin_lines, stdout>>

nativeVars == <<native_inner, native_called>>

\* What the calls on one Game, on the State and the handler leave alone.
otherVars == <<threads, native_inner, native_called>>

vars == <<current_line, initial_position, game_tree, last, before,
          inner, called, created, closed,
          pc, new_line, response, fatal_error, stdin_lines, stdout,
          threads, native_inner, native_called>>

None == "-"

\* Bind(v, F) is F(v) with v evaluated once: LET x == v IN F(x).
Bind(v, F(_)) == F(v)

\* Bounds: the longest current_line and the most moves stored in one game_tree.
MaxLen == 3

MaxNodes == 3

\* Bounds of the games held in a State: the longest current_line and the most
\* moves stored in one game_tree.
MaxStateLen == 1

MaxStateNodes == 1

MaxLines == 3

\* Bound of the native backend: the most cells its vector grows to.
MaxNativeGames == 4

\* The number of threads that hold a clone of the handle.
MaxThreads == 2

---------------------------------------------------------------------------
(* The board of the rules library.                                         *)

FileChars == <<"a", "b", "c">>

RankChars == <<"1", "2", "3", "4">>

Files == 1..Len(FileChars)

Ranks == 1..Len(RankChars)

Squares == Files \X Ranks

Roles == {"P", "N", "B", "R", "Q", "K"}

Empty == [color |-> None, role |-> None]

Piece(c, r) == [color |-> c, role |-> r]

Other(c) == IF c = "w" THEN "b" ELSE "w"

KnightDeltas ==
    {<<1, 2>>, <<2, 1>>, <<-1, 2>>, <<-2, 1>>, <<1, -2>>, <<2, -1>>, <<-1, -2>>, <<-2, -1>>}

RookDirs == {<<1, 0>>, <<-1, 0>>, <<0, 1>>, <<0, -1>>}

BishopDirs == {<<1, 1>>, <<1, -1>>, <<-1, 1>>, <<-1, -1>>}

KingDeltas == RookDirs \cup BishopDirs

Shift(sq, d, k) == <<sq[1] + k * d[1], sq[2] + k * d[2]>>

StepTargets(sq, deltas) == {Shift(sq, d, 1) : d \in deltas} \cap Squares

MaxSlide == IF Len(FileChars) > Len(RankChars) THEN Len(FileChars) ELSE Len(RankChars)

SlideTargets(board, sq, dirs) ==
    {t \in Squares :
        \E d \in dirs, k \in 1..MaxSlide :
            /\ t = Shift(sq, d, k)
            /\ \A j \in 1..(k - 1) : board[Shift(sq, d, j)] = Empty}

Forward(c) == IF c = "w" THEN 1 ELSE -1

LastRank(c) == IF c = "w" THEN Len(RankChars) ELSE 1

PawnAttacks(sq, c) == StepTargets(sq, {<<1, Forward(c)>>, <<-1, Forward(c)>>})

\* The squares the piece standing on sq attacks.
Attacks(board, sq) ==
    LET p == board[sq] IN
    CASE p.role = "N" -> StepTargets(sq, KnightDeltas)
      [] p.role = "K" -> StepTargets(sq, KingDeltas)
      [] p.role = "R" -> SlideTargets(board, sq, RookDirs)
      [] p.role = "B" -> SlideTargets(board, sq, BishopDirs)
      [] p.role = "Q" -> SlideTargets(board, sq, RookDirs \cup BishopDirs)
      [] p.role = "P" -> PawnAttacks(sq, p.color)
      [] OTHER -> {}

\* Is the king of colour c attacked on this board?
KingAttacked(board, c) ==
    \E k \in Squares :
        /\ board[k] = Piece(c, "K")
        /\ \E s \in Squares : board[s].color = Other(c) /\ k \in Attacks(board, s)

\* shakmaty::Move::Normal
NormalMove(role, from, capture, to, promotion) ==
    [role |-> role, from |-> from, capture |-> capture, to |-> to, promotion |-> promotion]

Promotions(c, to) == IF to[2] = LastRank(c) THEN {"Q", "R", "B", "N"} ELSE {None}

PawnMoves(pos, sq) ==
    LET c == pos.turn
        push == {t \in StepTargets(sq, {<<0, Forward(c)>>}) : pos.board[t] = Empty}
        takes == {t \in PawnAttacks(sq, c) : pos.board[t].color = Other(c)}
    IN  UNION {{NormalMove("P", sq, pos.board[t].role, t, pr) : pr \in Promotions(c, t)} :
                t \in push \cup takes}

PieceMoves(pos, sq) ==
    {NormalMove(pos.board[sq].role, sq, pos.board[t].role, t, None) :
        t \in {u \in Attacks(pos.board, sq) : pos.board[u].color # pos.turn}}

PseudoMoves(pos) ==
    UNION {IF pos.board[sq].role = "P" THEN PawnMoves(pos, sq) ELSE PieceMoves(pos, sq) :
            sq \in {s \in Squares : pos.board[s].color = pos.turn}}

\* Position::play_unchecked
play_unchecked(pos, m) ==
    [board |-> [s \in Squares |->
                    IF s = m.from THEN Empty
                    ELSE IF s = m.to
                         THEN Piece(pos.turn, IF m.promotion = None THEN m.role ELSE m.promotion)
                         ELSE pos.board[s]],
     turn |-> Other(pos.turn)]

\* The legal moves: those that do not leave the own king attacked.
LegalMoves(pos) ==
    {m \in PseudoMoves(pos) : ~KingAttacked(play_unchecked(pos, m).board, pos.turn)}

is_capture(m) == m.capture # None


---------------------------------------------------------------------------
(* Positions a Game starts from.  StartPosition stands for the standard    *)
(* starting position (shakmaty::Chess::default()); the others are what     *)
(* Game::from_fen yields for a valid FEN.                                  *)

BoardOf(placed) ==
    [s \in Squares |-> IF \E p \in placed : p[1] = s
                       THEN (CHOOSE p \in placed : p[1] = s)[2]
                       ELSE Empty]

\* K a1, R b1, N c1 against k c4, r b4, n a4: 1. Rxb4+ is a capture giving check.
StartPosition ==
    [board |-> BoardOf({<<<<1, 1>>, Piece("w", "K")>>, <<<<2, 1>>, Piece("w", "R")>>,
                        <<<<3, 1>>, Piece("w", "N")>>, <<<<3, 4>>, Piece("b", "K")>>,
                        <<<<2, 4>>, Piece("b", "R")>>, <<<<1, 4>>, Piece("b", "N")>>}),
     turn |-> "w"]

\* K a1, P b3 against k c2: the pawn promotes on b4.
PromotionPosition ==
    [board |-> BoardOf({<<<<1, 1>>, Piece("w", "K")>>, <<<<2, 3>>, Piece("w", "P")>>,
                        <<<<3, 2>>, Piece("b", "K")>>}),
     turn |-> "w"]

\* K a1, N a2, N c2 against k c4: both knights reach b4 (Nab4, Ncb4).
TwoKnightsPosition ==
    [board |-> BoardOf({<<<<1, 1>>, Piece("w", "K")>>, <<<<1, 2>>, Piece("w", "N")>>,
                        <<<<3, 2>>, Piece("w", "N")>>, <<<<3, 4>>, Piece("b", "K")>>}),
     turn |-> "w"]

InitialPositions == {StartPosition, PromotionPosition, TwoKnightsPosition}

\* What the rules say of one position: its legal moves and whether the side to
\* move is in check.
Rules(pos) == [legals |-> LegalMoves(pos), check |-> KingAttacked(pos.board, pos.turn)]

\* The positions within `depth` plies of the starting ones, each with its rules:
\* they are evaluated once per position and looked up afterwards.
RECURSIVE RulesWithin(_, _, _)
RulesWithin(table, frontier, depth) ==
    IF frontier = {} THEN table
    ELSE Bind(table @@ [p \in frontier |-> Rules(p)], LAMBDA all :
            IF depth = 0 THEN all
            ELSE RulesWithin(all,
                             UNION {{play_unchecked(p, m) : m \in all[p].legals} : p \in frontier}
                                \ DOMAIN all,
                             depth - 1))

RulesTable == RulesWithin(<<>>, InitialPositions, MaxLen + 1)

KnownPositions == DOMAIN RulesTable

SquareSeq == [i \in 1..(Len(FileChars) * Len(RankChars)) |->
                <<((i - 1) % Len(FileChars)) + 1, ((i - 1) \div Len(FileChars)) + 1>>]

\* RulesTable as a tree branching on what stands on each square in turn and on the
\* side to move, so that a lookup is a walk of the tree.
RECURSIVE RulesTree(_, _)
RulesTree(positions, k) ==
    IF k > Len(SquareSeq)
    THEN [t \in {p.turn : p \in positions} |->
            RulesTable[CHOOSE p \in positions : p.turn = t]]
    ELSE [v \in {p.board[SquareSeq[k]] : p \in positions} |->
            RulesTree({p \in positions : p.board[SquareSeq[k]] = v}, k + 1)]

RulesIndex == RulesTree(KnownPositions, 1)

RECURSIVE Lookup(_, _, _)
Lookup(node, pos, k) ==
    IF k > Len(SquareSeq) THEN node[pos.turn]
    ELSE Lookup(node[pos.board[SquareSeq[k]]], pos, k + 1)

RulesOf(pos) == IF pos \in KnownPositions THEN Lookup(RulesIndex, pos, 1) ELSE Rules(pos)

\* Position::legals
legals(pos) == RulesOf(pos).legals

\* Position::is_check
is_check(pos) == RulesOf(pos).check

\* Position::is_checkmate
is_checkmate(pos) == Bind(RulesOf(pos), LAMBDA r : r.check /\ r.legals = {})

---------------------------------------------------------------------------
(* SAN: shakmaty::san::San and SanPlus.  file and rank are 0 when absent.  *)

NormalSan(role, file, rank, capture, to, promotion) ==
    [role |-> role, file |-> file, rank |-> rank, capture |-> capture,
     to |-> to, promotion |-> promotion]

\* Position::san_candidates
san_candidates(pos, role, to) == {m \in legals(pos) : m.role = role /\ m.to = to}

\* Variant of San::from_move that never disambiguates a piece move.
San_from_move_plain(pos, m) ==
    NormalSan(m.role, IF m.role = "P" /\ is_capture(m) THEN m.from[1] ELSE 0, 0,
              is_capture(m), m.to, m.promotion)

\* San::disambiguate over the candidates of San::from_move
San_from_move(pos, m) ==
    IF m.role = "P"
    THEN NormalSan("P", IF is_capture(m) THEN m.from[1] ELSE 0, 0, is_capture(m), m.to, m.promotion)
    ELSE Bind({c \in san_candidates(pos, m.role, m.to) : c.from # m.from},
              LAMBDA others :
                LET byFile(c) == m.from[2] = c.from[2] \/ m.from[1] # c.from[1]
                    file == \E c \in others : byFile(c)
                    rank == \E c \in others : ~byFile(c)
                IN  NormalSan(m.role, IF file THEN m.from[1] ELSE 0,
                              IF rank THEN m.from[2] ELSE 0,
                              is_capture(m), m.to, m.promotion))

\* Suffix::from_position
Suffix_from_position(pos) ==
    IF is_checkmate(pos) THEN "#" ELSE IF is_check(pos) THEN "+" ELSE None

\* SanPlus::from_move
SanPlus_from_move(pos, m) ==
    [san |-> San_from_move(pos, m), suffix |-> Suffix_from_position(play_unchecked(pos, m))]

\* San::to_move: the legal moves the SAN denotes; exactly one, or a SanError.
San_to_move(san, pos) ==
    Bind({m \in san_candidates(pos, san.role, san.to) :
            /\ san.file \in {0, m.from[1]}
            /\ san.rank \in {0, m.from[2]}
            /\ san.promotion = m.promotion},
         LAMBDA found :
            IF Cardinality(found) = 1
            THEN [ok |-> TRUE, move |-> CHOOSE m \in found : TRUE]
            ELSE [ok |-> FALSE, error |-> "ChessRules"])

---------------------------------------------------------------------------
(* UCI: shakmaty::uci::Uci.                                                *)

IndexOf(seq, c) == IF \E i \in DOMAIN seq : seq[i] = c
                   THEN CHOOSE i \in DOMAIN seq : seq[i] = c
                   ELSE 0

\* Square::from_ascii on two characters
Square_from_ascii(f, r) ==
    IF IndexOf(FileChars, f) = 0 \/ IndexOf(RankChars, r) = 0
    THEN [ok |-> FALSE]
    ELSE [ok |-> TRUE, square |-> <<IndexOf(FileChars, f), IndexOf(RankChars, r)>>]

RoleChars == [p |-> "P", n |-> "N", b |-> "B", r |-> "R", q |-> "Q", k |-> "K"]

\* Role::from_char
Role_from_char(c) == IF c \in DOMAIN RoleChars THEN RoleChars[c] ELSE None

ParseError == [ok |-> FALSE, error |-> "Parse"]

\* Uci::from_ascii
Uci_parse(s) ==
    IF Len(s) # 4 /\ Len(s) # 5 THEN ParseError
    ELSE IF s = <<"0", "0", "0", "0">> THEN [ok |-> TRUE, uci |-> [kind |-> "Null"]]
    ELSE LET to == Square_from_ascii(s[3], s[4]) IN
         IF ~to.ok THEN ParseError
         ELSE IF s[2] = "@"
         THEN IF Role_from_char(s[1]) = None THEN ParseError
              ELSE [ok |-> TRUE, uci |-> [kind |-> "Put", role |-> Role_from_char(s[1]),
                                          to |-> to.square]]
         ELSE LET from == Square_from_ascii(s[1], s[2]) IN
              IF ~from.ok THEN ParseError
              ELSE IF Len(s) = 5
              THEN IF Role_from_char(s[5]) = None THEN ParseError
                   ELSE [ok |-> TRUE, uci |-> [kind |-> "Normal", from |-> from.square,
                                to |-> to.square, promotion |-> Role_from_char(s[5])]]
              ELSE [ok |-> TRUE, uci |-> [kind |-> "Normal", from |-> from.square,
                                to |-> to.square, promotion |-> None]]

IllegalMoveError == [ok |-> FALSE, error |-> "ChessRules"]

\* Uci::to_move
Uci_to_move(uci, pos) ==
    IF uci.kind # "Normal" THEN IllegalMoveError
    ELSE IF pos.board[uci.from] = Empty THEN IllegalMoveError
    ELSE Bind(NormalMove(pos.board[uci.from].role, uci.from,
                         pos.board[uci.to].role, uci.to, uci.promotion),
              LAMBDA candidate :
                IF candidate \in legals(pos)
                THEN [ok |-> TRUE, move |-> candidate]
                ELSE IllegalMoveError)


---------------------------------------------------------------------------
(* Game (core/src/game.rs).  An Option is a sequence of length 0 or 1.     *)

Some(x) == <<x>>

NoneOpt == <<>>

\* GameTree::default(): the root, which carries no SAN
DefaultGameTree == [san |-> NoneOpt, lines |-> <<>>, annotation |-> NoneOpt, evaluation |-> NoneOpt]

\* Game::default() with the given initial position (index and game_info never change)
NewGame(pos) == [current_line |-> <<>>, initial_position |-> pos, game_tree |-> DefaultGameTree]

\* Variant of insert_branch that puts the new child first (Vec::insert(0, ..)).
insert_branch_first(vec, san) ==
    <<[san |-> Some(san), lines |-> <<>>, annotation |-> NoneOpt, evaluation |-> NoneOpt]>> \o vec

insert_branch(vec, san) ==
    Append(vec, [san |-> Some(san), lines |-> <<>>, annotation |-> NoneOpt, evaluation |-> NoneOpt])

\* Iterator::position / Iterator::find: the first child carrying san, 0 when there is none
position(lines, san) ==
    IF \E i \in DOMAIN lines : lines[i].san = Some(san)
    THEN CHOOSE i \in DOMAIN lines :
            lines[i].san = Some(san) /\ \A j \in 1..(i - 1) : lines[j].san # Some(san)
    ELSE 0

RECURSIVE traverse_down(_, _)
\* The node reached is returned as the path of child indices leading to it.
traverse_down(tree, line) ==
    IF line = <<>> THEN [ok |-> TRUE, path |-> <<>>]
    ELSE Bind(position(tree.lines, Head(line)), LAMBDA child :
            IF child = 0 THEN [ok |-> FALSE, error |-> "ChessRules"]
            ELSE Bind(traverse_down(tree.lines[child], Tail(line)), LAMBDA rest :
                    IF rest.ok THEN [ok |-> TRUE, path |-> <<child>> \o rest.path] ELSE rest))

RECURSIVE NodeAt(_, _)
\* The node a path of child indices leads to.
NodeAt(tree, path) ==
    IF path = <<>> THEN tree ELSE NodeAt(tree.lines[Head(path)], Tail(path))

RECURSIVE WithLines(_, _, _)
\* The tree after the node at path had its lines replaced (a write through &mut).
WithLines(tree, path, lines) ==
    IF path = <<>> THEN [tree EXCEPT !.lines = lines]
    ELSE [tree EXCEPT !.lines[Head(path)] = WithLines(@, Tail(path), lines)]

RECURSIVE shakmaty_position(_, _)
\* ok = FALSE is the panic of expect("Tried to compute an invalid line").
shakmaty_position(starting_position, line) ==
    IF line = <<>> THEN [ok |-> TRUE, pos |-> starting_position]
    ELSE Bind(San_to_move(Head(line).san, starting_position), LAMBDA m :
            IF ~m.ok THEN [ok |-> FALSE]
            ELSE shakmaty_position(play_unchecked(starting_position, m.move), Tail(line)))

fromto_to_move(from, to, pos) ==
    Bind(Uci_parse(from \o to), LAMBDA m : IF ~m.ok THEN m ELSE Uci_to_move(m.uci, pos))

\* Variant of find_or_insert that inserts below the root whatever the current node.
find_or_insert_at_root(tree, path, san) ==
    Bind(position(tree.lines, san), LAMBDA existing_branch :
        [result |-> "Ok", san |-> Some(san),
         game_tree |-> IF existing_branch = 0
                       THEN [tree EXCEPT !.lines = Append(tree.lines,
                                [san |-> Some(san), lines |-> <<>>,
                                 annotation |-> NoneOpt, evaluation |-> NoneOpt])]
                       ELSE tree])

\* Variant of find_or_insert with the test on existing_branch dropped: no child is
\* ever inserted.
find_or_insert_never(tree, path, san) ==
    [result |-> "Ok", san |-> Some(san), game_tree |-> tree]

\* Variant of find_or_insert that inserts without looking for an existing child.
find_or_insert_always(tree, path, san) ==
    [result |-> "Ok", san |-> Some(san),
     game_tree |-> WithLines(tree, path,
                      Append(NodeAt(tree, path).lines,
                             [san |-> Some(san), lines |-> <<>>,
                              annotation |-> NoneOpt, evaluation |-> NoneOpt]))]

\* Variant of find_or_insert that replaces an existing child by a fresh one.
find_or_insert_reset(tree, path, san) ==
    Bind(NodeAt(tree, path).lines, LAMBDA lines :
        Bind(position(lines, san), LAMBDA existing_branch :
            [result |-> "Ok", san |-> Some(san),
             game_tree |-> WithLines(tree, path,
                              IF existing_branch = 0
                              THEN Append(lines, [san |-> Some(san), lines |-> <<>>,
                                                  annotation |-> NoneOpt, evaluation |-> NoneOpt])
                              ELSE [lines EXCEPT ![existing_branch].lines = <<>>])]))

\* The last lines of find_or_create_branch: reuse the child carrying san or insert one.
find_or_insert(tree, path, san) ==
    Bind(NodeAt(tree, path).lines, LAMBDA lines :
        Bind(position(lines, san), LAMBDA existing_branch :
            [result |-> "Ok", san |-> Some(san),
             game_tree |-> IF existing_branch = 0
                           THEN WithLines(tree, path, insert_branch(lines, san))
                           ELSE tree]))

\* find_or_create_branch once its first two statements have run: branch is what
\* traverse_down returned and pos what shakmaty_position returned (neither depends
\* on from or to).  Returns the outcome together with game_tree as the call leaves it.
find_or_create_branch_at(game, from, to, branch, pos) ==
    IF ~branch.ok
    THEN [result |-> branch.error, san |-> NoneOpt, game_tree |-> game.game_tree]
    ELSE IF ~pos.ok
    THEN [result |-> "panic", san |-> NoneOpt, game_tree |-> game.game_tree]
    ELSE Bind(fromto_to_move(from, to, pos.pos), LAMBDA mov :
            IF ~mov.ok
            THEN [result |-> mov.error, san |-> NoneOpt, game_tree |-> game.game_tree]
            ELSE find_or_insert(game.game_tree, branch.path,
                                SanPlus_from_move(pos.pos, mov.move)))

find_or_create_branch(game, from, to, line) ==
    find_or_create_branch_at(game, from, to, traverse_down(game.game_tree, line),
                             shakmaty_position(game.initial_position, line))

\* Variant of play_at that drops the last move of current_line when the call fails.
play_at_rollback(game, from, to, branch, pos) ==
    Bind(find_or_create_branch_at(game, from, to, branch, pos), LAMBDA r :
        IF r.result = "Ok"
        THEN [result |-> "Ok", san |-> r.san,
              game |-> [game EXCEPT !.game_tree = r.game_tree,
                                    !.current_line = Append(game.current_line, r.san[1])]]
        ELSE [result |-> r.result, san |-> r.san,
              game |-> [game EXCEPT !.current_line =
                            SubSeq(game.current_line, 1, Len(game.current_line) - 1)]])

\* Game::play, given what the first two statements of find_or_create_branch return
play_at(game, from, to, branch, pos) ==
    Bind(find_or_create_branch_at(game, from, to, branch, pos), LAMBDA r :
        IF r.result = "Ok"
        THEN [result |-> "Ok", san |-> r.san,
              game |-> [game EXCEPT !.game_tree = r.game_tree,
                                    !.current_line = Append(game.current_line, r.san[1])]]
        ELSE [result |-> r.result, san |-> r.san,
              game |-> [game EXCEPT !.game_tree = r.game_tree]])

\* Game::play
play(game, from, to) ==
    play_at(game, from, to, traverse_down(game.game_tree, game.current_line),
            shakmaty_position(game.initial_position, game.current_line))

U16Max == 65535

\* Variant of saturating_sub that keeps a when b is larger
\* (checked_sub(b).unwrap_or(a)).
checked_sub_or_self(a, b) == IF b > a THEN a ELSE a - b

\* usize::saturating_sub
saturating_sub(a, b) == IF b >= a THEN 0 ELSE a - b

\* Vec::truncate
truncate(vec, len) == IF len >= Len(vec) THEN vec ELSE SubSeq(vec, 1, len)

\* Variant of navigate_back that keeps one move too few.
navigate_back_one_more(game, back) ==
    [game EXCEPT !.current_line =
        SubSeq(game.current_line, 1, Len(game.current_line) - back - 1)]

\* Game::navigate_back
navigate_back(game, back) ==
    LET new_length == saturating_sub(Len(game.current_line), back) IN
    [game EXCEPT !.current_line = truncate(game.current_line, new_length)]

RECURSIVE NodeCount(_)
NodeCount(tree) ==
    LET RECURSIVE Sum(_)
        Sum(i) == IF i = 0 THEN 0 ELSE NodeCount(tree.lines[i]) + Sum(i - 1)
    IN  1 + Sum(Len(tree.lines))

---------------------------------------------------------------------------
(* FEN, as far as Game::from_fen needs it: the board, ranks from the last   *)
(* to the first separated by "/", then the side to move.                   *)

RECURSIVE Split(_, _)
\* str::split
Split(s, sep) ==
    IF IndexOf(s, sep) = 0 THEN <<s>>
    ELSE <<SubSeq(s, 1, IndexOf(s, sep) - 1)>>
            \o Split(SubSeq(s, IndexOf(s, sep) + 1, Len(s)), sep)

\* Piece::from_char: upper case is white, lower case is black
Piece_from_char(c) ==
    IF c \in Roles THEN Piece("w", c)
    ELSE IF c \in DOMAIN RoleChars THEN Piece("b", RoleChars[c])
    ELSE Empty

RECURSIVE Rank_from_ascii(_)
\* One rank of a FEN board: digits count empty squares, letters are pieces.
Rank_from_ascii(s) ==
    IF s = <<>> THEN [ok |-> TRUE, row |-> <<>>]
    ELSE Bind(Rank_from_ascii(Tail(s)), LAMBDA rest :
            IF ~rest.ok THEN rest
            ELSE IF IndexOf(FileChars, Head(s)) = 0 /\ IndexOf(<<"1", "2", "3">>, Head(s)) # 0
            THEN [ok |-> TRUE,
                  row |-> [i \in 1..IndexOf(<<"1", "2", "3">>, Head(s)) |-> Empty] \o rest.row]
            ELSE IF Piece_from_char(Head(s)) # Empty
            THEN [ok |-> TRUE, row |-> <<Piece_from_char(Head(s))>> \o rest.row]
            ELSE [ok |-> FALSE])

\* Board::from_ascii_board_fen
Board_from_ascii(s) ==
    Bind([i \in DOMAIN Split(s, "/") |-> Rank_from_ascii(Split(s, "/")[i])], LAMBDA rows :
        IF /\ Len(rows) = Len(RankChars)
           /\ \A i \in DOMAIN rows : rows[i].ok /\ Len(rows[i].row) = Len(FileChars)
        THEN [ok |-> TRUE,
              board |-> [sq \in Squares |-> rows[Len(RankChars) + 1 - sq[2]].row[sq[1]]]]
        ELSE [ok |-> FALSE])

\* Fen::from_ascii: a missing side to move is white
Fen_from_ascii(s) ==
    Bind(Split(s, " "), LAMBDA parts :
        Bind(Board_from_ascii(parts[1]), LAMBDA b :
            IF ~b.ok \/ Len(parts) > 2 THEN ParseError
            ELSE IF Len(parts) = 1 THEN [ok |-> TRUE, setup |-> [board |-> b.board, turn |-> "w"]]
            ELSE IF parts[2] \in {<<"w">>, <<"b">>}
            THEN [ok |-> TRUE, setup |-> [board |-> b.board, turn |-> parts[2][1]]]
            ELSE ParseError))

PositionError == [ok |-> FALSE, error |-> "ChessRules"]

\* Setup::position: one king each, no pawn on the first or last rank, and the side
\* that is not to move is not in check.
Setup_position(setup) ==
    IF /\ \A c \in {"w", "b"} :
            Cardinality({sq \in Squares : setup.board[sq] = Piece(c, "K")}) = 1
       /\ \A sq \in Squares : setup.board[sq].role = "P" => sq[2] \notin {1, Len(RankChars)}
       /\ ~KingAttacked(setup.board, Other(setup.turn))
    THEN [ok |-> TRUE, pos |-> setup]
    ELSE PositionError

\* Game::default(): shakmaty::Chess::default() is the starting position
Game_default == NewGame(StartPosition)

\* Game::from_fen
from_fen(fen_string) ==
    Bind(Fen_from_ascii(fen_string), LAMBDA setup :
        IF ~setup.ok THEN setup
        ELSE Bind(Setup_position(setup.setup), LAMBDA chess :
                IF ~chess.ok THEN chess
                ELSE [ok |-> TRUE, game |-> NewGame(chess.pos)]))

---------------------------------------------------------------------------
(* GameRepr, the derived view of a Game (Game::get_repr).                  *)

\* Game::current_position (the replay of a line the tree holds never panics)
current_position(game) == shakmaty_position(game.initial_position, game.current_line).pos

\* last_and_current_position: the last move with the position it was played in
\* (none for an empty current_line), and the current position.
last_and_current_position(game) ==
    IF game.current_line = <<>>
    THEN [maybe_last |-> NoneOpt, current_pos |-> game.initial_position]
    ELSE Bind(shakmaty_position(game.initial_position,
                                SubSeq(game.current_line, 1, Len(game.current_line) - 1)).pos,
              LAMBDA last_pos :
                [maybe_last |-> Some([san |-> game.current_line[Len(game.current_line)],
                                      pos |-> last_pos]),
                 current_pos |-> shakmaty_position(
                                    last_pos,
                                    <<game.current_line[Len(game.current_line)]>>).pos])

\* The place of a move in the list legals() returns: the list has one fixed order
\* for a position, taken here as by origin, destination and promotion.
MoveKey(m) ==
    ((m.from[2] * 10 + m.from[1]) * 100 + m.to[2] * 10 + m.to[1]) * 10
        + IndexOf(<<"Q", "R", "B", "N">>, m.promotion)

RECURSIVE MoveList(_)
MoveList(moves) ==
    IF moves = {} THEN <<>>
    ELSE Bind(CHOOSE m \in moves : \A n \in moves : MoveKey(m) <= MoveKey(n), LAMBDA m :
            <<m>> \o MoveList(moves \ {m}))

\* Square::to_string
Square_to_string(sq) == <<FileChars[sq[1]], RankChars[sq[2]]>>

\* insert_from_to: push to on the vector map holds at from, creating it if need be
insert_from_to(from, to, map) ==
    IF from \in DOMAIN map
    THEN [map EXCEPT ![from] = Append(@, to)]
    ELSE [k \in DOMAIN map \cup {from} |-> IF k = from THEN <<to>> ELSE map[k]]

\* insert_move: the promotion of a move is not part of its entry
insert_move(chess_move, map) ==
    insert_from_to(Square_to_string(chess_move.from), Square_to_string(chess_move.to), map)

RECURSIVE insert_moves(_, _)
\* The loop of available_moves over the legal moves.
insert_moves(legal_moves, map) ==
    IF legal_moves = <<>> THEN map
    ELSE insert_moves(Tail(legal_moves), insert_move(Head(legal_moves), map))

\* available_moves: HashMap<String, Vec<String>>, from each origin to its destinations
available_moves(pos) == insert_moves(MoveList(legals(pos)), <<>>)

\* Piece::char
Piece_char(piece) ==
    IF piece.color = "w" THEN piece.role
    ELSE CHOOSE c \in DOMAIN RoleChars : RoleChars[c] = piece.role

RECURSIVE Rank_to_fen(_, _, _, _)
\* One rank of the board in FEN: runs of empty squares are written as their length.
Rank_to_fen(board, rank, file, empties) ==
    IF file > Len(FileChars)
    THEN IF empties > 0 THEN <<RankChars[empties]>> ELSE <<>>
    ELSE IF board[<<file, rank>>] = Empty
    THEN Rank_to_fen(board, rank, file + 1, empties + 1)
    ELSE (IF empties > 0 THEN <<RankChars[empties]>> ELSE <<>>)
            \o <<Piece_char(board[<<file, rank>>])>>
            \o Rank_to_fen(board, rank, file + 1, 0)

RECURSIVE Board_to_fen(_, _)
Board_to_fen(board, rank) ==
    IF rank = 1 THEN Rank_to_fen(board, 1, 1, 0)
    ELSE Rank_to_fen(board, rank, 1, 0) \o <<"/">> \o Board_to_fen(board, rank - 1)

\* fn fen: shakmaty::fen::fen(pos).to_string(), the board and the side to move (the
\* castling, en passant and move counter fields are not part of the positions here)
fen_text(pos) == Board_to_fen(pos.board, Len(RankChars)) \o <<" ", pos.turn>>

\* What get_repr derives from the current position alone.
View(pos) == [available_moves |-> available_moves(pos), fen |-> fen_text(pos)]

\* View for the positions of RulesTable, evaluated once per position and looked up
\* afterwards by the same walk as the rules.
ViewTable == [p \in KnownPositions |-> View(p)]

RECURSIVE ViewTree(_, _)
ViewTree(positions, k) ==
    IF k > Len(SquareSeq)
    THEN [t \in {p.turn : p \in positions} |->
            ViewTable[CHOOSE p \in positions : p.turn = t]]
    ELSE [v \in {p.board[SquareSeq[k]] : p \in positions} |->
            ViewTree({p \in positions : p.board[SquareSeq[k]] = v}, k + 1)]

ViewIndex == ViewTree(KnownPositions, 1)

ViewOf(pos) == IF pos \in KnownPositions THEN Lookup(ViewIndex, pos, 1) ELSE View(pos)

\* Variant of is_takes that never reports a capture.
is_takes_never(maybe_last) == FALSE

\* is_takes
is_takes(maybe_last) ==
    IF maybe_last = NoneOpt THEN FALSE
    ELSE is_capture(San_to_move(maybe_last[1].san.san, maybe_last[1].pos).move)

\* Game::get_repr (index is never written after Game::default sets it to 0)
get_repr(game) ==
    Bind(last_and_current_position(game), LAMBDA p :
        [index |-> 0,
         available_moves |-> ViewOf(p.current_pos).available_moves,
         fen |-> ViewOf(p.current_pos).fen,
         is_takes |-> is_takes(p.maybe_last),
         is_check |-> is_check(p.current_pos)])

---------------------------------------------------------------------------
(* State (core/src/state.rs): the map from game id to GameCell.  A call    *)
(* returns its result, the id its error carries and the map as it leaves it.*)

Mutex_from(game) == [poisoned |-> FALSE, data |-> game]

\* HashMap::new
HashMap_new == <<>>

\* HashMap::insert: the map afterwards
HashMap_insert(state, id, cell) ==
    [k \in DOMAIN state \cup {id} |-> IF k = id THEN cell ELSE state[k]]

\* Error::new(error_type).with_id(id)
ErrorWithId(error_type, id) == [ok |-> FALSE, error |-> error_type, id |-> Some(id)]

\* Serialize for ErrorType (derived, with no rename): a variant is written as the
\* string of its name.
Serialize_ErrorType(error_type) ==
    CASE error_type = "Deserialize" -> <<"D", "e", "s", "e", "r", "i", "a", "l", "i", "z", "e">>
      [] error_type = "Parse" -> <<"P", "a", "r", "s", "e">>
      [] error_type = "ChessRules" -> <<"C", "h", "e", "s", "s", "R", "u", "l", "e", "s">>
      [] error_type = "BadHandle" -> <<"B", "a", "d", "H", "a", "n", "d", "l", "e">>
      [] error_type = "StaleHandle" -> <<"S", "t", "a", "l", "e", "H", "a", "n", "d", "l", "e">>
      [] error_type = "PoisonedHandle" ->
            <<"P", "o", "i", "s", "o", "n", "e", "d", "H", "a", "n", "d", "l", "e">>
      [] error_type = "IO" -> <<"I", "O">>

\* Variant of is_recoverable for which no error is fatal.
is_recoverable_always(error_type) == TRUE

\* Error::is_recoverable
is_recoverable(error_type) == error_type # "PoisonedHandle"

\* ErrorRepr::from(Error)
ErrorRepr(error) == [type |-> error.error, game_id |-> error.id]

\* Variant of response_from_error that leaves the error out.
response_from_error_no_error(error) == [error |-> NoneOpt, changed_games |-> <<>>]

\* response_from_error
response_from_error(error) == [error |-> Some(ErrorRepr(error)), changed_games |-> <<>>]

\* response_from_game
response_from_game(id, repr) ==
    [error |-> NoneOpt, changed_games |-> <<[id |-> id, game |-> repr]>>]

\* Variant of get_game that takes a missing entry for a closed one.
get_game_unwrap_or_none(state, id) ==
    IF id \notin DOMAIN state \/ state[id] = NoneOpt THEN ErrorWithId("StaleHandle", id)
    ELSE IF state[id][1].poisoned THEN ErrorWithId("PoisonedHandle", id)
    ELSE [ok |-> TRUE, game |-> state[id][1].data]

\* StateOperations::get_game
get_game(state, id) ==
    IF id \notin DOMAIN state THEN ErrorWithId("BadHandle", id)
    ELSE IF state[id] = NoneOpt THEN ErrorWithId("StaleHandle", id)
    ELSE IF state[id][1].poisoned THEN ErrorWithId("PoisonedHandle", id)
    ELSE [ok |-> TRUE, game |-> state[id][1].data]

\* The closures handed to game_operation, applied to the locked game.
game_closure(closure, game) ==
    IF closure.op = "play"
    THEN Bind(play(game, closure.from, closure.to), LAMBDA r :
            [result |-> r.result, game |-> r.game])
    ELSE [result |-> "Ok", game |-> navigate_back(game, closure.back)]

\* Variant of game_operation that takes the view of the game before the closure runs.
game_operation_view_first(state, id, closure) ==
    Bind(get_game(state, id), LAMBDA game_guard :
        IF ~game_guard.ok
        THEN [result |-> game_guard.error, id |-> game_guard.id, response |-> NoneOpt,
              state |-> state]
        ELSE Bind(game_closure(closure, game_guard.game), LAMBDA r :
                [result |-> r.result, id |-> NoneOpt,
                 response |-> IF r.result = "Ok"
                              THEN Some(response_from_game(id, get_repr(game_guard.game)))
                              ELSE NoneOpt,
                 state |-> [state EXCEPT ![id] = Some([poisoned |-> r.result = "panic",
                                                      data |-> r.game])]]))

\* StateHandle::game_operation.  A panic of the closure poisons the game's mutex.
game_operation(state, id, closure) ==
    Bind(get_game(state, id), LAMBDA game_guard :
        IF ~game_guard.ok
        THEN [result |-> game_guard.error, id |-> game_guard.id, response |-> NoneOpt,
              state |-> state]
        ELSE Bind(game_closure(closure, game_guard.game), LAMBDA r :
                [result |-> r.result, id |-> NoneOpt,
                 response |-> IF r.result = "Ok"
                              THEN Some(response_from_game(id, get_repr(r.game)))
                              ELSE NoneOpt,
                 state |-> [state EXCEPT ![id] = Some([poisoned |-> r.result = "panic",
                                                      data |-> r.game])]]))

\* StateHandle::play
StateHandle_play(state, id, from, to) ==
    game_operation(state, id, [op |-> "play", from |-> from, to |-> to])

\* Variant of navigate_back that walks every game of the map back, not only the one
\* at id.
StateHandle_navigate_back_every_game(state, id, back) ==
    Bind(game_operation(state, id, [op |-> "navigate_back", back |-> back]), LAMBDA r :
        [r EXCEPT !.state = [k \in DOMAIN r.state |->
                                IF r.state[k] = NoneOpt THEN NoneOpt
                                ELSE Some([r.state[k][1] EXCEPT
                                              !.data = navigate_back(@, back)])]])

\* StateHandle::navigate_back
StateHandle_navigate_back(state, id, back) ==
    game_operation(state, id, [op |-> "navigate_back", back |-> back])

\* Variant of close_game that removes the entry (HashMap::remove).
close_game_remove(state, id) ==
    IF id \notin DOMAIN state
    THEN [result |-> "BadHandle", id |-> Some(id), state |-> state]
    ELSE IF state[id] = NoneOpt
    THEN [result |-> "StaleHandle", id |-> Some(id), state |-> state]
    ELSE [result |-> "Ok", id |-> NoneOpt,
          state |-> [k \in DOMAIN state \ {id} |-> state[k]]]

\* Variant of close_game that accepts closing a closed game again.
close_game_idempotent(state, id) ==
    IF id \notin DOMAIN state
    THEN [result |-> "BadHandle", id |-> Some(id), state |-> state]
    ELSE [result |-> "Ok", id |-> NoneOpt, state |-> [state EXCEPT ![id] = NoneOpt]]

\* StateOperations::close_game
close_game(state, id) ==
    IF id \notin DOMAIN state
    THEN [result |-> "BadHandle", id |-> Some(id), state |-> state]
    ELSE IF state[id] = NoneOpt
    THEN [result |-> "StaleHandle", id |-> Some(id), state |-> state]
    ELSE [result |-> "Ok", id |-> NoneOpt, state |-> [state EXCEPT ![id] = NoneOpt]]

\* Variant of new_game_default that keeps the cell an id already has
\* (entry(id).or_insert(game)).
new_game_default_or_insert(state, id) ==
    [result |-> "Ok", id |-> NoneOpt,
     state |-> IF id \in DOMAIN state THEN state
               ELSE HashMap_insert(state, id, Some(Mutex_from(Game_default)))]

\* StateOperations::new_game_default
new_game_default(state, id) ==
    [result |-> "Ok", id |-> NoneOpt,
     state |-> HashMap_insert(state, id, Some(Mutex_from(Game_default)))]

\* StateOperations::new_game_fen: the result is made from what insert returns, the
\* cell the map held at id before, once the game is stored.
new_game_fen(state, id, fen) ==
    Bind(from_fen(fen), LAMBDA game :
        IF ~game.ok THEN [result |-> game.error, id |-> NoneOpt, state |-> state]
        ELSE [result |-> IF id \in DOMAIN state THEN "Ok" ELSE "BadHandle",
              id |-> IF id \in DOMAIN state THEN NoneOpt ELSE Some(id),
              state |-> HashMap_insert(state, id, Some(Mutex_from(game.game)))])

\* The closures handed to state_operation, applied to the write-locked map.
state_closure(closure, state) ==
    IF closure.op = "new_game_default" THEN new_game_default(state, closure.id)
    ELSE [result |-> "Ok", id |-> NoneOpt, state |-> state]

\* HashMap::iter: the keys in the order the map yields them
hashmap_iter(state, order) == SelectSeq(order, LAMBDA k : k \in DOMAIN state)

RECURSIVE all_games_skipping_rest(_, _)
\* Variant of all_games that ends the walk at the first closed game.
all_games_skipping_rest(state, keys) ==
    IF keys = <<>> \/ state[Head(keys)] = NoneOpt THEN <<>>
    ELSE IF state[Head(keys)][1].poisoned
    THEN <<[ok |-> FALSE, error |-> "PoisonedHandle", id |-> NoneOpt]>>
    ELSE <<[ok |-> TRUE, id |-> Head(keys), game |-> state[Head(keys)][1].data]>>
            \o all_games_skipping_rest(state, Tail(keys))

RECURSIVE all_games(_, _)
\* all_games: what GamesIterator::next yields, call after call, over keys: closed
\* games are skipped and nothing follows a game whose lock is poisoned.
all_games(state, keys) ==
    IF keys = <<>> THEN <<>>
    ELSE IF state[Head(keys)] = NoneOpt THEN all_games(state, Tail(keys))
    ELSE IF state[Head(keys)][1].poisoned
    THEN <<[ok |-> FALSE, error |-> "PoisonedHandle", id |-> NoneOpt]>>
    ELSE <<[ok |-> TRUE, id |-> Head(keys), game |-> state[Head(keys)][1].data]>>
            \o all_games(state, Tail(keys))

\* handle_fatal_error on an Err: a recoverable error becomes a response
handle_fatal_error(err) ==
    IF is_recoverable(err.error)
    THEN [ok |-> TRUE, response |-> response_from_error(err)]
    ELSE err

\* response_from_games: one entry per game yielded, or what handle_fatal_error
\* makes of the first error
response_from_games(games) ==
    IF \E i \in DOMAIN games : ~games[i].ok
    THEN handle_fatal_error(games[CHOOSE i \in DOMAIN games :
                                    ~games[i].ok /\ \A j \in 1..(i - 1) : games[j].ok])
    ELSE [ok |-> TRUE,
          response |-> [error |-> NoneOpt,
                        changed_games |-> [i \in DOMAIN games |->
                                              [id |-> games[i].id,
                                               game |-> get_repr(games[i].game)]]]]

\* StateHandle::state_operation: the closure, then the response made from all
\* games in the order the map yields them.
state_operation(state, closure, order) ==
    Bind(state_closure(closure, state), LAMBDA r :
        IF r.result # "Ok"
        THEN [result |-> r.result, id |-> r.id, response |-> NoneOpt, state |-> r.state]
        ELSE Bind(response_from_games(all_games(r.state, hashmap_iter(r.state, order))),
                  LAMBDA all :
                    IF all.ok
                    THEN [result |-> "Ok", id |-> NoneOpt, response |-> Some(all.response),
                          state |-> r.state]
                    ELSE [result |-> all.error, id |-> all.id, response |-> NoneOpt,
                          state |-> r.state]))

\* Variant of get_all_games whose closure starts the game "" afresh.
StateHandle_get_all_games_new_game(state, order) ==
    state_operation(state, [op |-> "new_game_default", id |-> <<>>], order)

\* StateHandle::get_all_games
StateHandle_get_all_games(state, order) ==
    state_operation(state, [op |-> "get_all_games"], order)

\* StateHandle::new_game_default
StateHandle_new_game_default(state, id, order) ==
    state_operation(state, [op |-> "new_game_default", id |-> id], order)

---------------------------------------------------------------------------
(* The protocol: a line of input is a text; a text that is JSON is the     *)
(* value it denotes (a string, a number, or an object: a function from its *)
(* keys to values), any other text is kept as its characters.  A Result is *)
(* [ok |-> TRUE, ...] or an error [ok |-> FALSE, error |-> type, id |-> _]. *)

\* A text: type is "string", "number" or "object" for JSON, "text" for any other.
Json(type, value) == [type |-> type, value |-> value]

\* From<serde_json::Error> for Error, From<io::Error> for Error: no id
Error_from(error_type) == [ok |-> FALSE, error |-> error_type, id |-> NoneOpt]

\* The seven kinds of error.
ErrorType ==
    {"Deserialize", "Parse", "ChessRules", "BadHandle", "StaleHandle", "PoisonedHandle", "IO"}

\* Deserialize for a field of type String of a params struct
String_field(params, name) == name \in DOMAIN params /\ params[name].type = "string"

\* Deserialize for a field of type u16 of a params struct
u16_field(params, name) ==
    /\ name \in DOMAIN params
    /\ params[name].type = "number"
    /\ params[name].value \in 0..U16Max

\* Deserialize for PlayArgs, NavigateBackArgs, GetAllGamesArgs and NewGameArgs: every
\* field of the struct is there with its type; other keys are ignored.
Args_from_params(method, params) ==
    CASE method = "play" ->
            IF String_field(params, "id") /\ String_field(params, "to")
               /\ String_field(params, "from")
            THEN [ok |-> TRUE,
                  request |-> [method |-> method, id |-> params["id"].value,
                               to |-> params["to"].value, from |-> params["from"].value]]
            ELSE Error_from("Deserialize")
      [] method = "navigate_back" ->
            IF String_field(params, "id") /\ u16_field(params, "back")
            THEN [ok |-> TRUE,
                  request |-> [method |-> method, id |-> params["id"].value,
                               back |-> params["back"].value]]
            ELSE Error_from("Deserialize")
      [] method = "get_all_games" -> [ok |-> TRUE, request |-> [method |-> method]]
      [] method = "new_game" ->
            IF String_field(params, "id")
            THEN [ok |-> TRUE, request |-> [method |-> method, id |-> params["id"].value]]
            ELSE Error_from("Deserialize")

\* serde_json::from_str::<Request>: the text is a JSON object whose "method" names a
\* variant of Request in snake_case and whose "params" is an object that decodes as
\* the arguments of that variant.
Request_from_str(text) ==
    IF text.type # "object" THEN Error_from("Deserialize")
    ELSE IF "method" \notin DOMAIN text.value \/ "params" \notin DOMAIN text.value
    THEN Error_from("Deserialize")
    ELSE IF text.value["method"].type # "string" \/ text.value["params"].type # "object"
    THEN Error_from("Deserialize")
    ELSE IF text.value["method"].value
                \notin {"play", "navigate_back", "get_all_games", "new_game"}
    THEN Error_from("Deserialize")
    ELSE Args_from_params(text.value["method"].value, text.value["params"].value)

\* dispatch_request: the method of StateHandle the request names, then
\* handle_fatal_error.  What it returns and the State as it leaves it.
dispatch_request(request, state, order) ==
    Bind(CASE request.method = "play" ->
                StateHandle_play(state, request.id, request.from, request.to)
           [] request.method = "navigate_back" ->
                StateHandle_navigate_back(state, request.id, request.back)
           [] request.method = "get_all_games" -> StateHandle_get_all_games(state, order)
           [] request.method = "new_game" ->
                StateHandle_new_game_default(state, request.id, order),
         LAMBDA r :
            [result |-> IF r.result = "Ok" THEN [ok |-> TRUE, response |-> r.response[1]]
                        ELSE IF r.result = "panic" THEN Error_from("panic")
                        ELSE handle_fatal_error([ok |-> FALSE, error |-> r.result,
                                                 id |-> r.id]),
             state |-> r.state])

\* Variant of dispatch that hands the decoding error back as an Err.
dispatch_err(text, state, order) ==
    Bind(Request_from_str(text), LAMBDA request :
        IF request.ok THEN dispatch_request(request.request, state, order)
        ELSE [result |-> request, state |-> state])

\* stdio::dispatch
dispatch(text, state, order) ==
    Bind(Request_from_str(text), LAMBDA request :
        IF request.ok THEN dispatch_request(request.request, state, order)
        ELSE [result |-> [ok |-> TRUE, response |-> response_from_error(request)],
              state |-> state])

\* Variant of send_to_stream that writes the response ahead of those written before.
send_to_stream_first(message, stream) == <<message>> \o stream

\* send_to_stream: the stream with the response written, one line, and flushed
send_to_stream(message, stream) == Append(stream, message)

\* Variant of exit_gracefully that writes nothing.
exit_gracefully_silent(result, stream) == stream

\* exit_gracefully: the response made of the error the handler returned goes out
exit_gracefully(result, stream) == send_to_stream(response_from_error(result), stream)

\* Option::unwrap_or_default of the line next_line yields: the empty text at the end
\* of the input
unwrap_or_default(maybe_line) == IF maybe_line = <<>> THEN Json("text", <<>>) ELSE maybe_line[1]

---------------------------------------------------------------------------
(* One Game and the calls made on it.                                      *)

SquareStr(sq) == <<FileChars[sq[1]], RankChars[sq[2]]>>

\* What a caller passes as from: squares that hold a piece in some position,
\* squares that hold none, and text that names no square.
FromInputs ==
    {SquareStr(s) : s \in {<<1, 2>>, <<2, 1>>, <<2, 3>>, <<2, 4>>, <<3, 2>>, <<3, 4>>}}
        \cup {<<"z", "9">>}

\* What a caller passes as to: squares, a square followed by a promotion letter or
\* by a letter that names no role, and the empty string.
ToInputs ==
    {SquareStr(s) : s \in {<<2, 3>>, <<2, 4>>, <<3, 3>>}}
        \cup {<<"b", "4", "q">>, <<"b", "4", "x">>, <<>>}

\* What a caller passes as back: nothing, less than, as much as and more than the
\* length of current_line, up to the largest u16.
BackInputs == {0, 1, 2, U16Max}

Self == [current_line |-> current_line, initial_position |-> initial_position,
         game_tree |-> game_tree]

SetGame(g) ==
    /\ current_line' = g.current_line
    /\ initial_position' = g.initial_position
    /\ game_tree' = g.game_tree

\* last records the call just made: op, what it returned (result), its argument
\* back, what the arguments from and to denoted in the position the call was made
\* in (input: a parse error, an illegal move, or the SAN of a legal move), and
\* undo, which marks a navigate_back(1) made right after a successful play.
NoInput == [ok |-> FALSE, error |-> None]

\* What from and to denote in pos, by the rules library alone.
Denotes(from, to, pos) ==
    Bind(Uci_parse(from \o to), LAMBDA uci :
        IF ~uci.ok THEN [ok |-> FALSE, error |-> "Parse"]
        ELSE Bind(Uci_to_move(uci.uci, pos), LAMBDA mov :
                IF ~mov.ok THEN [ok |-> FALSE, error |-> "ChessRules"]
                ELSE [ok |-> TRUE, san |-> SanPlus_from_move(pos, mov.move)]))

---------------------------------------------------------------------------
(* The native backend: the games are the cells of a vector, a handle is    *)
(* an index into it.                                                       *)

\* Game of the native backend: insert_game gives it the index of its cell.
Native_Game(index) == [index |-> index]

\* ReadOperations::get_game (indices count from 0)
Native_get_game(state, index) ==
    IF index >= Len(state) THEN [ok |-> FALSE, error |-> "BadGameHandle"]
    ELSE IF state[index + 1] = NoneOpt THEN [ok |-> FALSE, error |-> "StaleGameHandle"]
    ELSE [ok |-> TRUE, game |-> state[index + 1][1]]

\* insert_game: the vector afterwards (the handle is its old length)
Native_insert_game(state) == Append(state, Some(Native_Game(Len(state))))

\* WriteOperations::close_game
Native_close_game(state, index) ==
    IF index >= Len(state) THEN [result |-> "BadGameHandle", state |-> state]
    ELSE IF state[index + 1] = NoneOpt THEN [result |-> "StaleGameHandle", state |-> state]
    ELSE [result |-> "Ok", state |-> [state EXCEPT ![index + 1] = NoneOpt]]

RECURSIVE Native_all_games(_, _)
\* GamesIterator::next from index on, call after call: the games it yields until it
\* returns None.  index is added to once after get_game and once more when the cell
\* holds a game.  No game of the model is poisoned, so the panic is left out.
Native_all_games(target, index) ==
    Bind(Native_get_game(target, index), LAMBDA result :
        IF result.ok THEN <<result.game>> \o Native_all_games(target, (index + 1) + 1)
        ELSE IF result.error = "StaleGameHandle" THEN Native_all_games(target, index + 1)
        ELSE <<>>)

\* StateHandle::get_all_games of the native backend; generate_json tells the games
\* apart as the games themselves do
Native_get_all_games(state) == Native_all_games(state, 0)

---------------------------------------------------------------------------
(* Threads that call through clones of one StateHandle.  A thread is at    *)
(* most in one call: closure is the call with its arguments, map the guard *)
(* of the RwLock it holds ("none", "read" or "write"), game the id whose   *)
(* MutexGuard it holds, keys and games the GamesIterator of its walk and   *)
(* what the walk has yielded.  called is the call that returned in the     *)
(* last step, if one did.                                                  *)

Threads == 1..MaxThreads

\* A thread that is in no call: it holds no guard.
IdleThread ==
    [pc |-> "idle", closure |-> NoneOpt, map |-> "none", game |-> NoneOpt,
     keys |-> <<>>, games |-> <<>>]

IdleThreads == threads = [t \in Threads |-> IdleThread]

\* Variant of RwLock::read that waits for the readers too.
RwLock_read_exclusive(all) == \A u \in DOMAIN all : all[u].map = "none"

\* RwLock::read returns once no thread holds the write guard.
RwLock_read(all) == \A u \in DOMAIN all : all[u].map # "write"

\* Variant of RwLock::write that waits for the writers only.
RwLock_write_among_readers(all) == \A u \in DOMAIN all : all[u].map # "write"

\* RwLock::write returns once no thread holds any guard of the map.
RwLock_write(all) == \A u \in DOMAIN all : all[u].map = "none"

\* Variant of Mutex::lock that returns at once.
Mutex_lock_at_once(all, id) == TRUE

\* Mutex::lock of game id returns once no thread holds its guard.
Mutex_lock(all, id) == \A u \in DOMAIN all : all[u].game # Some(id)

RECURSIVE GamesIterator_next_skipping_poisoned(_, _)
\* Variant of GamesIterator::next that passes over a poisoned game as over a closed one.
GamesIterator_next_skipping_poisoned(state, keys) ==
    IF keys = <<>> THEN [item |-> NoneOpt, keys |-> <<>>]
    ELSE IF state[Head(keys)] = NoneOpt \/ state[Head(keys)][1].poisoned
    THEN GamesIterator_next_skipping_poisoned(state, Tail(keys))
    ELSE [item |-> Some([ok |-> TRUE, id |-> Head(keys), game |-> state[Head(keys)][1].data]),
          keys |-> Tail(keys)]

RECURSIVE GamesIterator_next(_, _)
\* GamesIterator::next over the keys hashmap_iter has left: the item (None at the
\* end) and the keys left afterwards; is_poisoned leaves no key.
GamesIterator_next(state, keys) ==
    IF keys = <<>> THEN [item |-> NoneOpt, keys |-> <<>>]
    ELSE IF state[Head(keys)] = NoneOpt THEN GamesIterator_next(state, Tail(keys))
    ELSE IF state[Head(keys)][1].poisoned
    THEN [item |-> Some([ok |-> FALSE, error |-> "PoisonedHandle", id |-> NoneOpt]),
          keys |-> <<>>]
    ELSE [item |-> Some([ok |-> TRUE, id |-> Head(keys), game |-> state[Head(keys)][1].data]),
          keys |-> Tail(keys)]

\* The native backend after StateHandle::default(), which creates one game.
IdleNative ==
    /\ native_inner = Native_insert_game(<<>>)
    /\ native_called = [op |-> "default", index |-> 0, result |-> "Ok", games |-> <<>>]

IdleOthers ==
    /\ IdleNative
    /\ IdleThreads

\* main before it awaits the handler.
IdleHandler ==
    /\ pc = "start"
    /\ new_line = <<>>
    /\ response = <<>>
    /\ fatal_error = <<>>
    /\ stdin_lines = [read |-> 0, eof |-> FALSE]
    /\ stdout = <<>>
    /\ IdleOthers

\* The State while the calls go to one Game alone.
IdleState ==
    /\ IdleHandler
    /\ inner = HashMap_new
    /\ called = [op |-> "default", id |-> None, result |-> "Ok", response |-> NoneOpt]
    /\ created = {}
    /\ closed = {}

InitGame ==
    /\ initial_position \in InitialPositions
    /\ current_line = <<>>
    /\ game_tree = DefaultGameTree
    /\ last = [op |-> "new", result |-> "Ok", back |-> 0, input |-> NoInput, undo |-> FALSE]
    /\ before = <<>>
    /\ IdleState

Play(from, to, branch, pos) ==
    Bind(play_at(Self, from, to, branch, pos), LAMBDA r :
        /\ NodeCount(r.game.game_tree) <= MaxNodes + 1
        /\ SetGame(r.game)
        /\ last' = [op |-> "play", result |-> r.result, back |-> 0,
                    input |-> IF pos.ok THEN Denotes(from, to, pos.pos) ELSE NoInput,
                    undo |-> FALSE]
        /\ before' = current_line
        /\ UNCHANGED <<stateVars, handlerVars, otherVars>>)

\* A call of play with any input (the tree walk and the replay of current_line are
\* the same for every input and are evaluated once).
PlayCall ==
    /\ Len(current_line) < MaxLen
    /\ Bind(traverse_down(game_tree, current_line), LAMBDA branch :
         Bind(shakmaty_position(initial_position, current_line), LAMBDA pos :
            \E from \in FromInputs, to \in ToInputs : Play(from, to, branch, pos)))

NavigateBack(back) ==
    /\ SetGame(navigate_back(Self, back))
    /\ last' = [op |-> "navigate_back", result |-> "Ok", back |-> back, input |-> NoInput,
                undo |-> (back = 1 /\ last.op = "play" /\ last.result = "Ok")]
    /\ before' = current_line
    /\ UNCHANGED <<stateVars, handlerVars, otherVars>>

NextGame ==
    \/ PlayCall
    \/ \E back \in BackInputs : NavigateBack(back)

Init == InitGame

Next == NextGame

Spec == Init /\ [][Next]_vars

---------------------------------------------------------------------------
(* The State and the calls made on it, one at a time.                      *)

\* The ids callers use, the empty string among them.
Ids == {<<>>, <<"g">>}

\* The orders in which a HashMap may yield its keys.
Orders == {order \in [1..Cardinality(Ids) -> Ids] : \A i, j \in DOMAIN order : order[i] = order[j] => i = j}

StateFromInputs == {SquareStr(s) : s \in {<<2, 1>>, <<2, 3>>, <<2, 4>>}} \cup {<<"z", "9">>}

StateToInputs == {SquareStr(s) : s \in {<<2, 3>>, <<2, 4>>}} \cup {<<>>}

StateBackInputs == {0, 1, U16Max}

\* FEN texts: the promotion position, a board with a rank of four squares, and a
\* board without a black king.
FenInputs ==
    { <<"3", "/", "1", "P", "1", "/", "2", "k", "/", "K", "2", " ", "w">>,
      <<"3", "/", "1", "P", "1", "/", "2", "k", "/", "K", "3", " ", "w">>,
      <<"3", "/", "1", "P", "1", "/", "3", "/", "K", "2", " ", "w">> }

\* The Game the single-game calls act on, while the calls go to the State.
IdleGame ==
    /\ initial_position = StartPosition
    /\ current_line = <<>>
    /\ game_tree = DefaultGameTree
    /\ last = [op |-> "new", result |-> "Ok", back |-> 0, input |-> NoInput, undo |-> FALSE]
    /\ before = <<>>

InitState ==
    /\ IdleState
    /\ IdleGame

\* The games of a State stay within the bounds.
WithinStateBounds(state) ==
    \A k \in DOMAIN state :
        state[k] # NoneOpt =>
            /\ Len(state[k][1].data.current_line) <= MaxStateLen
            /\ NodeCount(state[k][1].data.game_tree) <= MaxStateNodes + 1

\* The State after a call that returned r.
Called(op, id, r) ==
    /\ WithinStateBounds(r.state)
    /\ inner' = r.state
    /\ called' = [op |-> op, id |-> id, result |-> r.result,
                  response |-> IF "response" \in DOMAIN r THEN r.response ELSE NoneOpt]
    /\ created' = created \cup DOMAIN r.state
    /\ closed' = IF op = "close_game" /\ r.result = "Ok" THEN closed \cup {id} ELSE closed
    /\ UNCHANGED <<gameVars, handlerVars, otherVars>>

StatePlay(id, from, to) == Called("play", id, StateHandle_play(inner, id, from, to))

StateNavigateBack(id, back) ==
    Called("navigate_back", id, StateHandle_navigate_back(inner, id, back))

CloseGame(id) == Called("close_game", id, close_game(inner, id))

NewGameDefault(id, order) ==
    Called("new_game_default", id, StateHandle_new_game_default(inner, id, order))

NewGameFen(id, fen) == Called("new_game_fen", id, new_game_fen(inner, id, fen))

GetAllGames(order) == Called("get_all_games", None, StateHandle_get_all_games(inner, order))

NextState ==
    \/ \E id \in Ids, from \in StateFromInputs, to \in StateToInputs : StatePlay(id, from, to)
    \/ \E id \in Ids, back \in StateBackInputs : StateNavigateBack(id, back)
    \/ \E id \in Ids : CloseGame(id)
    \/ \E id \in Ids, order \in Orders : NewGameDefault(id, order)
    \/ \E id \in Ids, fen \in FenInputs : NewGameFen(id, fen)
    \/ \E order \in Orders : GetAllGames(order)

StateSpec == InitState /\ [][NextState]_vars

---------------------------------------------------------------------------
(* main and the handler it awaits, on a State of its own.                  *)

\* The line {"method": method, "params": params}
RequestLine(method, params) ==
    Json("object", [method |-> Json("string", method), params |-> Json("object", params)])

\* Lines that do not decode: not JSON, blank, an unknown method, a play without to,
\* a back that is no u16.
BadLines ==
    { Json("text", <<"n", "o", "t", "-", "j", "s", "o", "n">>),
      Json("text", <<>>),
      RequestLine("resign", <<>>),
      RequestLine("play", [id |-> Json("string", <<"g">>),
                           from |-> Json("string", <<"b", "1">>)]),
      RequestLine("navigate_back", [id |-> Json("string", <<"g">>),
                                    back |-> Json("number", U16Max + 1)]) }

\* Lines that decode: new_game, a legal play, a play from no square, a play that is
\* no move, navigate_back and get_all_games.
GoodLines ==
    { RequestLine("new_game", [id |-> Json("string", <<"g">>)]),
      RequestLine("navigate_back", [id |-> Json("string", <<"g">>),
                                    back |-> Json("number", 1)]),
      RequestLine("get_all_games", <<>>) }
    \cup { RequestLine("play", [id |-> Json("string", <<"g">>), from |-> Json("string", from),
                                to |-> Json("string", <<"b", to>>)]) :
             from \in {<<"b", "1">>, <<"z", "9">>}, to \in {"3", "4"} }

Handler(at) ==
    /\ pc' = at
    /\ UNCHANGED <<gameVars, called, created, closed, otherVars>>

\* Variant of send_initial_message that writes nothing.
SendInitialMessage_silent(order) ==
    /\ pc = "start"
    /\ Handler("loop")
    /\ UNCHANGED <<inner, new_line, response, fatal_error, stdin_lines, stdout>>

\* send_initial_message: get_all_games()?, then the response goes out
SendInitialMessage(order) ==
    /\ pc = "start"
    /\ Bind(StateHandle_get_all_games(inner, order), LAMBDA message :
         IF message.result = "Ok"
         THEN /\ Handler("loop")
              /\ stdout' = send_to_stream(message.response[1], stdout)
              /\ UNCHANGED fatal_error
         ELSE /\ Handler("returned")
              /\ fatal_error' = Some([ok |-> FALSE, error |-> message.result,
                                      id |-> message.id])
              /\ UNCHANGED stdout)
    /\ UNCHANGED <<inner, new_line, response, stdin_lines>>

\* handler, line 20: next_line yields a line
NextLine(text) ==
    /\ pc = "loop" /\ ~stdin_lines.eof /\ stdin_lines.read < MaxLines
    /\ Handler("dispatch")
    /\ new_line' = Some(unwrap_or_default(Some(text)))
    /\ stdin_lines' = [stdin_lines EXCEPT !.read = @ + 1]
    /\ UNCHANGED <<inner, response, fatal_error, stdout>>

\* handler, line 20: the input is at its end and next_line yields None
NextLineNone ==
    /\ pc = "loop" /\ Len(stdout) <= MaxLines
    /\ Handler("dispatch")
    /\ new_line' = Some(unwrap_or_default(NoneOpt))
    /\ stdin_lines' = [stdin_lines EXCEPT !.eof = TRUE]
    /\ UNCHANGED <<inner, response, fatal_error, stdout>>

\* handler, line 20: next_line fails and ? returns the error
NextLineErr ==
    /\ pc = "loop"
    /\ Handler("returned")
    /\ fatal_error' = Some(Error_from("IO"))
    /\ UNCHANGED <<inner, new_line, response, stdin_lines, stdout>>

\* handler, line 21: dispatch(&new_line, &state)?
Dispatch(order) ==
    /\ pc = "dispatch"
    /\ Bind(dispatch(new_line[1], inner, order), LAMBDA d :
         /\ inner' = d.state
         /\ IF d.result.ok
            THEN /\ Handler("send")
                 /\ response' = Some(d.result.response)
                 /\ UNCHANGED fatal_error
            ELSE /\ Handler(IF d.result.error = "panic" THEN "panicked" ELSE "returned")
                 /\ fatal_error' = Some(d.result)
                 /\ UNCHANGED response)
    /\ UNCHANGED <<new_line, stdin_lines, stdout>>

\* handler, line 22: send_to_stream(response, &mut stdout), and around the loop
Send ==
    /\ pc = "send"
    /\ Handler("loop")
    /\ stdout' = send_to_stream(response[1], stdout)
    /\ new_line' = NoneOpt
    /\ response' = NoneOpt
    /\ UNCHANGED <<inner, fatal_error, stdin_lines>>

\* main: exit_gracefully(fatal_error), and main returns
ExitGracefully ==
    /\ pc = "returned"
    /\ Handler("exited")
    /\ stdout' = exit_gracefully(fatal_error[1], stdout)
    /\ UNCHANGED <<inner, new_line, response, fatal_error, stdin_lines>>

\* Another holder of the handle (StateHandle is a shared pointer to the map) panics
\* with the lock of game id in its hands: the mutex is poisoned from then on.
PanicInLock(id) ==
    /\ pc = "loop"
    /\ id \in DOMAIN inner /\ inner[id] # NoneOpt /\ ~inner[id][1].poisoned
    /\ inner' = [inner EXCEPT ![id] = Some([@[1] EXCEPT !.poisoned = TRUE])]
    /\ UNCHANGED <<gameVars, called, created, closed, handlerVars, otherVars>>

NextHandler ==
    \/ \E order \in Orders : SendInitialMessage(order)
    \/ \E text \in BadLines \cup GoodLines : NextLine(text)
    \/ NextLineNone
    \/ NextLineErr
    \/ \E order \in Orders : Dispatch(order)
    \/ Send
    \/ ExitGracefully
    \/ \E id \in Ids : PanicInLock(id)

\* main: StateHandle::default(), then the handler
HandlerSpec == InitState /\ [][NextHandler]_vars

\* The task runs on: send_initial_message and dispatch return (the steps that take
\* pc on from "start" and from "dispatch"), and a response or an error in hand is
\* written.  Whether another line ever comes is up to the input.
FairHandlerSpec ==
    /\ HandlerSpec
    /\ WF_pc(pc = "start" /\ pc' \in {"loop", "returned"})
    /\ WF_pc(pc = "dispatch" /\ pc' \in {"send", "returned", "panicked"})
    /\ WF_vars(Send)
    /\ WF_vars(ExitGracefully)

---------------------------------------------------------------------------
(* The calls on the StateHandle of the native backend.                     *)

NativeCalled(op, index, result, state, games) ==
    /\ Len(state) <= MaxNativeGames
    /\ native_inner' = state
    /\ native_called' = [op |-> op, index |-> index, result |-> result, games |-> games]
    /\ UNCHANGED <<gameVars, stateVars, handlerVars, threads>>

NativeNewGameDefault ==
    NativeCalled("new_game_default", Len(native_inner), "Ok",
                 Native_insert_game(native_inner), <<>>)

NativeCloseGame(index) ==
    Bind(Native_close_game(native_inner, index), LAMBDA r :
        NativeCalled("close_game", index, r.result, r.state, <<>>))

NativeGetAllGames ==
    NativeCalled("get_all_games", 0, "Ok", native_inner, Native_get_all_games(native_inner))

NextNative ==
    \/ NativeNewGameDefault
    \/ \E index \in 0..MaxNativeGames : NativeCloseGame(index)
    \/ NativeGetAllGames

NativeSpec == InitState /\ [][NextNative]_vars

---------------------------------------------------------------------------
(* The calls of the threads, one step at a time.                           *)

\* The calls a thread makes, with their arguments.
ThreadCalls ==
    {[op |-> "play", id |-> id, from |-> SquareStr(<<2, 1>>), to |-> SquareStr(<<2, 3>>)] :
        id \in Ids}
    \cup {[op |-> "navigate_back", id |-> id, back |-> 1] : id \in Ids}
    \cup {[op |-> "new_game_default", id |-> id] : id \in Ids}
    \cup {[op |-> "get_all_games"]}

IsGameOperation(closure) == closure.op \in {"play", "navigate_back"}

\* Thread t moves on to next without returning, the map becomes state.
Thread(t, next, state) ==
    /\ WithinStateBounds(state)
    /\ threads' = [threads EXCEPT ![t] = next]
    /\ inner' = state
    /\ called' = [op |-> "none", id |-> None, result |-> "Ok", response |-> NoneOpt]
    /\ UNCHANGED <<gameVars, created, closed, handlerVars, nativeVars>>

\* Variant of Return that keeps the guard of the map after the call has returned.
Return_holding_map(t, r, state) ==
    /\ WithinStateBounds(state)
    /\ threads' = [threads EXCEPT ![t] = [IdleThread EXCEPT !.map = threads[t].map]]
    /\ inner' = state
    /\ called' = [op |-> threads[t].closure[1].op,
                  id |-> IF "id" \in DOMAIN threads[t].closure[1]
                         THEN threads[t].closure[1].id ELSE None,
                  result |-> r.result, error_id |-> r.id, response |-> r.response,
                  thread |-> t]
    /\ UNCHANGED <<gameVars, created, closed, handlerVars, nativeVars>>

\* The call of thread t returns r and leaves the map as state: every guard the
\* thread holds is dropped.
Return(t, r, state) ==
    /\ WithinStateBounds(state)
    /\ threads' = [threads EXCEPT ![t] = IdleThread]
    /\ inner' = state
    /\ called' = [op |-> threads[t].closure[1].op,
                  id |-> IF "id" \in DOMAIN threads[t].closure[1]
                         THEN threads[t].closure[1].id ELSE None,
                  result |-> r.result, error_id |-> r.id, response |-> r.response,
                  thread |-> t]
    /\ UNCHANGED <<gameVars, created, closed, handlerVars, nativeVars>>

\* A thread calls play, navigate_back, new_game_default or get_all_games.
Call(t, closure) ==
    /\ threads[t].pc = "idle"
    /\ Thread(t, [IdleThread EXCEPT !.pc = "called", !.closure = Some(closure)], inner)

\* game_operation: self.inner.read()
ReadLock(t) ==
    /\ threads[t].pc = "called"
    /\ IsGameOperation(threads[t].closure[1])
    /\ RwLock_read(threads)
    /\ Thread(t, [threads[t] EXCEPT !.pc = "get_game", !.map = "read"], inner)

\* game_operation: read_guard.get_game(id)?, which waits for the game's lock
GetGame(t) ==
    /\ threads[t].pc = "get_game"
    /\ Bind(threads[t].closure[1].id, LAMBDA id :
        Bind(get_game(inner, id), LAMBDA game_guard :
            /\ (id \in DOMAIN inner /\ inner[id] # NoneOpt) => Mutex_lock(threads, id)
            /\ IF game_guard.ok
               THEN Thread(t, [threads[t] EXCEPT !.pc = "closure", !.game = Some(id)], inner)
               ELSE Return(t, [result |-> game_guard.error, id |-> game_guard.id,
                               response |-> NoneOpt], inner)))

\* Variant of Closure that lets go of the game's lock once the closure has run.
Closure_unlocking(t) ==
    /\ threads[t].pc = "closure"
    /\ Bind(threads[t].closure[1].id, LAMBDA id :
        Bind(game_closure(threads[t].closure[1], inner[id][1].data), LAMBDA r :
            Bind([inner EXCEPT ![id] = Some([poisoned |-> r.result = "panic",
                                             data |-> r.game])], LAMBDA state :
                IF r.result = "Ok"
                THEN Thread(t, [threads[t] EXCEPT !.pc = "get_repr", !.game = NoneOpt], state)
                ELSE Return(t, [result |-> r.result, id |-> NoneOpt, response |-> NoneOpt],
                            state))))

\* game_operation: closure(&mut game_guard)?
Closure(t) ==
    /\ threads[t].pc = "closure"
    /\ Bind(threads[t].closure[1].id, LAMBDA id :
        Bind(game_closure(threads[t].closure[1], inner[id][1].data), LAMBDA r :
            Bind([inner EXCEPT ![id] = Some([poisoned |-> r.result = "panic",
                                             data |-> r.game])], LAMBDA state :
                IF r.result = "Ok"
                THEN Thread(t, [threads[t] EXCEPT !.pc = "get_repr"], state)
                ELSE Return(t, [result |-> r.result, id |-> NoneOpt, response |-> NoneOpt],
                            state))))

\* game_operation: Ok(response_from_game(id, game_guard.get_repr())), and the guards
\* are dropped
GetRepr(t) ==
    /\ threads[t].pc = "get_repr"
    /\ Bind(threads[t].closure[1].id, LAMBDA id :
        Return(t, [result |-> "Ok", id |-> NoneOpt,
                   response |-> Some(response_from_game(id, get_repr(inner[id][1].data)))],
               inner))

\* The thread panics with the guard of a game in its hands: unwinding drops the
\* guards, the mutex is poisoned from then on and the thread is gone.
Panic(t) ==
    /\ threads[t].pc = "closure"
    /\ Thread(t, [IdleThread EXCEPT !.pc = "panicked"],
              [inner EXCEPT ![threads[t].game[1]] = Some([@[1] EXCEPT !.poisoned = TRUE])])

\* state_operation: self.inner.write()
WriteLock(t) ==
    /\ threads[t].pc = "called"
    /\ ~IsGameOperation(threads[t].closure[1])
    /\ RwLock_write(threads)
    /\ Thread(t, [threads[t] EXCEPT !.pc = "state_closure", !.map = "write"], inner)

\* state_operation: closure(&mut guard)?, then guard.all_games()
StateClosure(t, order) ==
    /\ threads[t].pc = "state_closure"
    /\ Bind(state_closure(threads[t].closure[1], inner), LAMBDA r :
        IF r.result = "Ok"
        THEN Thread(t, [threads[t] EXCEPT !.pc = "walk",
                                          !.keys = hashmap_iter(r.state, order)], r.state)
        ELSE Return(t, [result |-> r.result, id |-> r.id, response |-> NoneOpt], r.state))

\* response_from_games asks the iterator for the next game: at the end, or at a
\* poisoned game, the call returns; else the thread holds the lock of the game.
WalkNext(t) ==
    /\ threads[t].pc = "walk"
    /\ Bind(GamesIterator_next(inner, threads[t].keys), LAMBDA n :
        IF n.item # NoneOpt /\ n.item[1].ok
        THEN /\ Mutex_lock(threads, n.item[1].id)
             /\ Thread(t, [threads[t] EXCEPT !.pc = "walk_repr", !.keys = n.keys,
                                            !.game = Some(n.item[1].id)], inner)
        ELSE Bind(response_from_games(IF n.item = NoneOpt THEN threads[t].games
                                      ELSE Append(threads[t].games, n.item[1])),
                  LAMBDA all :
                    Return(t,
                           IF all.ok
                           THEN [result |-> "Ok", id |-> NoneOpt,
                                 response |-> Some(all.response)]
                           ELSE [result |-> all.error, id |-> all.id, response |-> NoneOpt],
                           inner)))

\* state_operation: (id, game.get_repr()) of the game the iterator yielded, and its
\* guard is dropped
WalkRepr(t) ==
    /\ threads[t].pc = "walk_repr"
    /\ Bind(threads[t].game[1], LAMBDA id :
        Thread(t, [threads[t] EXCEPT
                       !.pc = "walk", !.game = NoneOpt,
                       !.games = Append(@, [ok |-> TRUE, id |-> id,
                                            game |-> inner[id][1].data])],
               inner))

NextThreads ==
    \E t \in Threads :
        \/ \E closure \in ThreadCalls : Call(t, closure)
        \/ ReadLock(t)
        \/ GetGame(t)
        \/ Closure(t)
        \/ GetRepr(t)
        \/ Panic(t)
        \/ WriteLock(t)
        \/ \E order \in Orders : StateClosure(t, order)
        \/ WalkNext(t)
        \/ WalkRepr(t)

ThreadsSpec == InitState /\ [][NextThreads]_vars

\* Thread t can take the next step of its call.
CanStep(t) ==
    \/ threads[t].pc \in {"closure", "get_repr", "state_closure", "walk_repr"}
    \/ threads[t].pc = "called"
          /\ IF IsGameOperation(threads[t].closure[1]) THEN RwLock_read(threads)
             ELSE RwLock_write(threads)
    \/ threads[t].pc = "get_game"
          /\ ((threads[t].closure[1].id \in DOMAIN inner
                 /\ inner[threads[t].closure[1].id] # NoneOpt) =>
                    Mutex_lock(threads, threads[t].closure[1].id))
    \/ threads[t].pc = "walk"
          /\ Bind(GamesIterator_next(inner, threads[t].keys), LAMBDA n :
                (n.item # NoneOpt /\ n.item[1].ok) => Mutex_lock(threads, n.item[1].id))

\* A step of thread t inside the call it has made.
ThreadStep(t) ==
    \/ ReadLock(t)
    \/ GetGame(t)
    \/ Closure(t)
    \/ GetRepr(t)
    \/ WriteLock(t)
    \/ \E order \in Orders : StateClosure(t, order)
    \/ WalkNext(t)
    \/ WalkRepr(t)

\* The threads when no holder of a lock panics.
NextRunningThreads ==
    \E t \in Threads :
        \/ \E closure \in ThreadCalls : Call(t, closure)
        \/ ThreadStep(t)

\* A thread starts an operation.
CallStep == \E t \in Threads : threads[t].pc = "idle" /\ threads'[t].pc = "called"

\* Every thread runs on: a step it can take from some point on without interruption
\* it takes, a lock that stays free for it included.  The locks promise no more: a
\* lock that other threads keep retaking may never come to the one that waits.
\* The first two conjuncts say so of the guards of the map; the third says it of
\* every step, as the weak fairness of ThreadStep(t) written with CanStep(t), the
\* condition under which ThreadStep(t) is enabled.  Whether a thread ever calls is
\* up to it.
FairThreadsSpec ==
    /\ InitState
    /\ [][NextRunningThreads]_vars
    /\ \A t \in Threads :
          /\ WF_vars(ReadLock(t))
          /\ WF_vars(WriteLock(t))
          /\ \/ []<>(~CanStep(t))
             \/ []<><<threads[t].pc # "idle" /\ threads'[t] # threads[t]>>_vars

---------------------------------------------------------------------------
(* Claims about one Game.                                                  *)

\* The node of tree that line leads to (the root when line does not lead anywhere).
NodeAtLine(tree, line) ==
    Bind(traverse_down(tree, line), LAMBDA t : IF t.ok THEN NodeAt(tree, t.path) ELSE tree)

HasChild(node, san) == \E i \in DOMAIN node.lines : node.lines[i].san = Some(san)

RECURSIVE AllLegal(_, _)
\* Every SAN stored below tree denotes a legal move in the position its path leads to.
AllLegal(tree, pos) ==
    \A i \in DOMAIN tree.lines :
        /\ Len(tree.lines[i].san) = 1
        /\ Bind(San_to_move(tree.lines[i].san[1].san, pos), LAMBDA m :
                m.ok /\ AllLegal(tree.lines[i], play_unchecked(pos, m.move)))

RECURSIVE LineLegal(_, _)
LineLegal(line, pos) ==
    line = <<>> \/ Bind(San_to_move(Head(line).san, pos), LAMBDA m :
                        m.ok /\ LineLegal(Tail(line), play_unchecked(pos, m.move)))

\* C1: every SAN of current_line and every SAN stored in a game_tree node is a legal
\* move in the position reached by replaying, from initial_position, the moves on
\* the path that precedes it.
C1_EverySanLegal ==
    /\ AllLegal(game_tree, initial_position)
    /\ LineLegal(current_line, initial_position)

\* A game from a FEN with a main line of two moves and a side line at the root.
C1_Witness ==
    /\ initial_position # StartPosition
    /\ last.op = "play" /\ last.result = "Ok"
    /\ Len(current_line) = 2
    /\ Len(game_tree.lines) = 2

\* C2: current_line is a path of game_tree from the root: the tree walk of play
\* finds a child at every step.
C2_LineIsPath == traverse_down(game_tree, current_line).ok

\* After a failed play and after a navigate_back, deep in a tree with a side line.
C2_Witness ==
    /\ last.op = "play" /\ last.result = "ChessRules"
    /\ Len(current_line) = 2
    /\ Len(game_tree.lines) = 2

RECURSIVE DistinctChildren(_)
DistinctChildren(tree) ==
    /\ \A i, j \in DOMAIN tree.lines : tree.lines[i].san = tree.lines[j].san => i = j
    /\ \A i \in DOMAIN tree.lines : DistinctChildren(tree.lines[i])

\* C3: the children of any single game_tree node have pairwise distinct SANs.
C3_DistinctChildren == DistinctChildren(game_tree)

\* A move was played again from a node that has two children: the move is the first
\* child, which a play that had just inserted it could not be.
C3_Witness ==
    /\ last.op = "play" /\ last.result = "Ok"
    /\ Len(NodeAtLine(game_tree, before).lines) = 2
    /\ NodeAtLine(game_tree, before).lines[1].san = Some(last.input.san)

\* C4: a play whose SAN is already a child of the node at the end of current_line
\* succeeds, leaves game_tree unchanged and only appends that SAN to current_line.
C4_ReplayReusesChild ==
    [][(/\ last'.op = "play"
        /\ last'.input.ok
        /\ HasChild(NodeAtLine(game_tree, current_line), last'.input.san))
       => (/\ last'.result = "Ok"
           /\ game_tree' = game_tree
           /\ initial_position' = initial_position
           /\ current_line' = Append(current_line, last'.input.san))]_vars

\* The move replayed has a continuation of its own below it.
C4_Witness ==
    /\ last.op = "play" /\ last.result = "Ok"
    /\ NodeAtLine(game_tree, current_line).lines # <<>>

\* C5: a successful play(m) followed by navigate_back(1) restores current_line to
\* what it was before play(m), and the child for m is still under the node it was
\* played from.
C5_PlayThenBackOne ==
    [][(/\ last.op = "play" /\ last.result = "Ok"
        /\ last'.op = "navigate_back" /\ last'.back = 1)
       => (/\ current_line' = before
           /\ shakmaty_position(initial_position', current_line')
                = shakmaty_position(initial_position, before)
           /\ HasChild(NodeAtLine(game_tree', before), last.input.san))]_vars

\* navigate_back(1) right after a successful play made below the root.
C5_Witness ==
    /\ last.op = "navigate_back" /\ last.undo
    /\ Len(current_line) >= 1

Max(a, b) == IF a >= b THEN a ELSE b

\* C6: navigate_back(n) never fails and truncates current_line to its first
\* max(0, len - n) moves; with n >= len the current position is initial_position.
C6_NavigateBackTruncates ==
    [][last'.op = "navigate_back"
       => (/\ last'.result = "Ok"
           /\ current_line' = SubSeq(current_line, 1, Max(0, Len(current_line) - last'.back))
           /\ (last'.back = 0 => current_line' = current_line)
           /\ (last'.back >= Len(current_line)
                => shakmaty_position(initial_position', current_line').pos = initial_position')
           /\ game_tree' = game_tree
           /\ initial_position' = initial_position)]_vars

\* navigate_back(65535) from two moves deep.
C6_Witness ==
    /\ last.op = "navigate_back" /\ last.back = U16Max
    /\ Len(before) >= 2
    /\ current_line = <<>>

RECURSIVE Extends(_, _)
\* new holds every node of old, at the same place and in the same order.
Extends(old, new) ==
    /\ old.san = new.san
    /\ Len(old.lines) <= Len(new.lines)
    /\ \A i \in DOMAIN old.lines : Extends(old.lines[i], new.lines[i])

\* C7: game_tree is append-only: navigate_back never changes it, a play adds at
\* most one node, as the last child of the node at the end of current_line, and no
\* call removes a node or reorders children.
C7_TreeAppendOnly ==
    [][/\ Extends(game_tree, game_tree')
       /\ NodeCount(game_tree') <= NodeCount(game_tree) + 1
       /\ (last'.op = "navigate_back" => game_tree' = game_tree)
       /\ (game_tree' # game_tree
            => (/\ last'.op = "play" /\ last'.result = "Ok"
                /\ Bind(NodeAtLine(game_tree', current_line).lines, LAMBDA lines :
                        /\ Len(lines) = Len(NodeAtLine(game_tree, current_line).lines) + 1
                        /\ lines[Len(lines)].san = Some(last'.input.san)
                        /\ lines[Len(lines)].lines = <<>>)))]_vars

\* A play added a second child below the root, after the first had got a child.
C7_Witness ==
    /\ last.op = "play" /\ last.result = "Ok"
    /\ before # <<>>
    /\ Len(NodeAtLine(game_tree, before).lines) = 2
    /\ NodeAtLine(game_tree, before).lines[2].san = Some(last.input.san)

\* C8: a failed play (Parse when from and to form no UCI move, ChessRules when the
\* move is not legal) leaves current_line, game_tree and initial_position unchanged.
C8_FailedPlayChangesNothing ==
    [][(last'.op = "play" /\ (last'.result # "Ok" \/ ~last'.input.ok))
       => (/\ last'.result = last'.input.error
           /\ last'.result \in {"Parse", "ChessRules"}
           /\ current_line' = current_line
           /\ game_tree' = game_tree
           /\ initial_position' = initial_position)]_vars

\* An illegal move was refused two moves deep.
C8_Witness ==
    /\ last.op = "play" /\ last.result = "ChessRules"
    /\ Len(current_line) = 2
    /\ NodeCount(game_tree) = MaxNodes + 1

---------------------------------------------------------------------------
(* Claims about the State.                                                 *)

IsTombstone(state, id) == id \in DOMAIN state /\ state[id] = NoneOpt

IsPresent(state, id) == id \in DOMAIN state /\ state[id] # NoneOpt

\* C9: on a State in which id has never been created, play, navigate_back and
\* close_game on id each fail with BadHandle, and the failed call creates no entry
\* for id and changes no other entry of the map.
C9_UnknownIdBadHandle ==
    [][(called'.op \in {"play", "navigate_back", "close_game"} /\ called'.id \notin created)
       => (/\ called'.result = "BadHandle"
           /\ called'.id \notin DOMAIN inner'
           /\ inner' = inner)]_vars

\* play on an id never created, while the other id holds a game that has moved on.
C9_Witness ==
    /\ called.op = "play" /\ called.result = "BadHandle"
    /\ called.id \notin created
    /\ \E k \in DOMAIN inner : IsPresent(inner, k) /\ inner[k][1].data.current_line # <<>>

\* C10 as stated: once close_game(id) has succeeded, the slot for id is a tombstone
\* for the rest of the run.
C10_TombstoneForever == \A id \in closed : IsTombstone(inner, id)

\* C10, amended: once close_game(id) has succeeded, id stays a key of the map, and
\* its slot stays a tombstone until a new_game_default or new_game_fen on id stores
\* a game there; no other call revives it, and while the slot is a tombstone every
\* play, navigate_back and close_game on id fails with StaleHandle and leaves the
\* map unchanged.
C10_TombstoneUntilNewGame ==
    [][\A id \in closed' :
        /\ id \in DOMAIN inner'
        /\ IsTombstone(inner, id)
            => (/\ (\/ IsTombstone(inner', id)
                    \/ (/\ called'.op \in {"new_game_default", "new_game_fen"}
                        /\ called'.id = id
                        /\ called'.result = "Ok"))
                /\ ((called'.op \in {"play", "navigate_back", "close_game"} /\ called'.id = id)
                    => (called'.result = "StaleHandle" /\ inner' = inner)))]_vars

\* play on a closed id, refused as stale, while the other id holds a game created
\* after the close.
C10_Witness ==
    /\ called.op = "play" /\ called.result = "StaleHandle"
    /\ called.id \in closed
    /\ IsTombstone(inner, called.id)
    /\ \E k \in DOMAIN inner : IsPresent(inner, k) /\ k \notin closed

\* The cells of the map other than the one at id are the same in a and b.
OthersUnchanged(a, b, id) ==
    /\ DOMAIN a \ {id} = DOMAIN b \ {id}
    /\ \A k \in DOMAIN a \ {id} : a[k] = b[k]

\* C11: close_game(id) on a present game succeeds, makes exactly that cell a
\* tombstone, keeps id as a key and leaves every other cell unchanged; on an
\* unknown id it fails with BadHandle and on a closed id with StaleHandle, and in
\* both failing cases the map is unchanged.
C11_CloseGame ==
    [][called'.op = "close_game"
       => (/\ IsPresent(inner, called'.id)
               => (/\ called'.result = "Ok"
                   /\ IsTombstone(inner', called'.id)
                   /\ DOMAIN inner' = DOMAIN inner
                   /\ OthersUnchanged(inner, inner', called'.id))
           /\ called'.id \notin DOMAIN inner
               => (called'.result = "BadHandle" /\ inner' = inner)
           /\ IsTombstone(inner, called'.id)
               => (called'.result = "StaleHandle" /\ inner' = inner))]_vars

\* A second close_game on a closed id, refused, while the other id holds a game
\* that has moved on.
C11_Witness ==
    /\ called.op = "close_game" /\ called.result = "StaleHandle"
    /\ called.id \in closed
    /\ \E k \in DOMAIN inner : IsPresent(inner, k) /\ inner[k][1].data.current_line # <<>>

\* C12: new_game_default(id) never fails and, whether id was absent, present or
\* closed, leaves at id a present default Game (starting position, empty
\* current_line, root-only game_tree), every other cell being unchanged.
C12_NewGameDefault ==
    [][called'.op = "new_game_default"
       => (/\ called'.result = "Ok"
           /\ called'.id \in DOMAIN inner'
           /\ inner'[called'.id]
                = Some([poisoned |-> FALSE,
                        data |-> [current_line |-> <<>>, initial_position |-> StartPosition,
                                  game_tree |-> DefaultGameTree]])
           /\ OthersUnchanged(inner, inner', called'.id))]_vars

\* new_game_default on an id that had been closed, while the other id holds a game
\* from a FEN.
C12_Witness ==
    /\ called.op = "new_game_default" /\ called.id \in closed
    /\ IsPresent(inner, called.id)
    /\ \E k \in DOMAIN inner :
          IsPresent(inner, k) /\ inner[k][1].data.initial_position # StartPosition

\* C13 as stated: new_game_fen returns an error only when the FEN is rejected (Parse
\* or ChessRules), and then the map is unchanged: it never returns an error after
\* having stored the game.
C13_NewGameFenErrorsOnlyOnBadFen ==
    [][called'.op = "new_game_fen"
       => (/\ called'.result \in {"Ok", "Parse", "ChessRules"}
           /\ called'.result # "Ok" => inner' = inner
           /\ called'.result = "Ok"
               => (IsPresent(inner', called'.id) /\ OthersUnchanged(inner, inner', called'.id)))]_vars

PresentIds(state) == {k \in DOMAIN state : state[k] # NoneOpt}

\* C14: a successful play or navigate_back through the State on id returns a
\* Response without error whose changed_games has exactly one entry, with the
\* requested id and the derived view of that game as the operation left it.
C14_SingleGameResponse ==
    [][(called'.op \in {"play", "navigate_back"} /\ called'.result = "Ok")
       => (/\ Len(called'.response) = 1
           /\ called'.response[1].error = NoneOpt
           /\ Len(called'.response[1].changed_games) = 1
           /\ called'.response[1].changed_games[1].id = called'.id
           /\ IsPresent(inner', called'.id)
           /\ called'.response[1].changed_games[1].game
                = get_repr(inner'[called'.id][1].data))]_vars

\* A play that captured and gave check: the view in the response says so.
C14_Witness ==
    /\ called.op = "play" /\ called.result = "Ok"
    /\ called.response[1].changed_games[1].game.is_takes
    /\ called.response[1].changed_games[1].game.is_check
    /\ Cardinality(PresentIds(inner)) = 2

\* C15: a successful get_all_games or new_game returns a Response without error
\* whose changed_games has exactly one entry for each id whose cell holds a present
\* game once the call has made its own change: no closed id, no present id missing,
\* no id twice, each with the derived view of its game.
C15_AllGamesResponse ==
    [][(called'.op \in {"get_all_games", "new_game_default"} /\ called'.result = "Ok")
       => (/\ Len(called'.response) = 1
           /\ called'.response[1].error = NoneOpt
           /\ Bind(called'.response[1].changed_games, LAMBDA changed_games :
                /\ {changed_games[i].id : i \in DOMAIN changed_games} = PresentIds(inner')
                /\ Len(changed_games) = Cardinality(PresentIds(inner'))
                /\ \A i \in DOMAIN changed_games :
                      changed_games[i].game = get_repr(inner'[changed_games[i].id][1].data)))]_vars

\* get_all_games on a map that holds a closed game and a present one that has moved
\* on: one entry.
C15_Witness ==
    /\ called.op = "get_all_games" /\ called.result = "Ok"
    /\ \E k \in DOMAIN inner : IsTombstone(inner, k)
    /\ \E k \in DOMAIN inner : IsPresent(inner, k) /\ inner[k][1].data.current_line # <<>>
    /\ Len(called.response[1].changed_games) = 1

---------------------------------------------------------------------------
(* Claims about the handler.                                               *)

IsSuccess(message) == message.error = NoneOpt

IsFailure(message, error_type) ==
    /\ message.error # NoneOpt
    /\ message.error[1].type = error_type
    /\ message.changed_games = <<>>

\* The response a step has written, if it has written one.
Written == IF Len(stdout') = Len(stdout) + 1 THEN Some(stdout'[Len(stdout')]) ELSE NoneOpt

\* C16 as stated: every response written is a success with error absent and a
\* non-empty changed_games, or a failure with error present and changed_games empty.
C16_SuccessNonEmptyOrFailure ==
    \A i \in DOMAIN stdout :
        \/ stdout[i].error = NoneOpt /\ stdout[i].changed_games # <<>>
        \/ stdout[i].error # NoneOpt /\ stdout[i].changed_games = <<>>

\* C16: every response written is a success, with error absent and one entry in
\* changed_games for each game it reports (none only when the State holds no game),
\* or a failure, with error present and changed_games empty.
C16_SuccessOrFailure ==
    [][stdout' # stdout =>
        /\ Written # NoneOpt
        /\ stdout' = Append(stdout, Written[1])
        /\ \/ /\ Written[1].error = NoneOpt
              /\ Written[1].changed_games = <<>> => PresentIds(inner') = {}
           \/ /\ Written[1].error # NoneOpt
              /\ Written[1].changed_games = <<>>]_vars

\* The handler has written an empty success, a success with a game and a failure.
C16_Witness ==
    /\ \E i \in DOMAIN stdout : IsSuccess(stdout[i]) /\ stdout[i].changed_games = <<>>
    /\ \E i \in DOMAIN stdout : IsSuccess(stdout[i]) /\ stdout[i].changed_games # <<>>
    /\ \E i \in DOMAIN stdout : IsFailure(stdout[i], "ChessRules")

\* The error a request runs into, read off the State it is dispatched on.
Expected(request, state) ==
    IF request.method \in {"play", "navigate_back"}
    THEN IF request.id \notin DOMAIN state THEN "BadHandle"
         ELSE IF state[request.id] = NoneOpt THEN "StaleHandle"
         ELSE IF state[request.id][1].poisoned THEN "PoisonedHandle"
         ELSE "Other"
    ELSE IF \E k \in PresentIds(state) :
                state[k][1].poisoned /\ ~(request.method = "new_game" /\ request.id = k)
    THEN "PoisonedHandle"
    ELSE "Ok"

\* C17: handling a request returns Err only for PoisonedHandle, the one kind that is
\* not recoverable: an error of any other kind comes back as Ok(Response) with the
\* error in it, and every PoisonedHandle comes back as Err.
C17_OnlyPoisonedIsFatal ==
    [][pc = "dispatch" /\ pc' # pc =>
        /\ \A e \in ErrorType :
              Bind(handle_fatal_error([ok |-> FALSE, error |-> e, id |-> NoneOpt]), LAMBDA h :
                   IF e = "PoisonedHandle" THEN ~h.ok /\ h.error = e
                   ELSE h.ok /\ IsFailure(h.response, e))
        /\ pc' \in {"send", "returned"}
        /\ pc' = "returned" => fatal_error'[1].error = "PoisonedHandle"
        /\ pc' = "send" =>
              \/ IsSuccess(response'[1])
              \/ \E e \in ErrorType \ {"PoisonedHandle"} : IsFailure(response'[1], e)
        /\ Bind(Request_from_str(new_line[1]), LAMBDA request :
              IF ~request.ok THEN pc' = "send" /\ IsFailure(response'[1], "Deserialize")
              ELSE Bind(Expected(request.request, inner), LAMBDA e :
                     CASE e = "PoisonedHandle" -> pc' = "returned"
                       [] e = "Ok" -> pc' = "send" /\ IsSuccess(response'[1])
                       [] e = "Other" ->
                            /\ pc' = "send"
                            /\ \/ IsSuccess(response'[1])
                               \/ IsFailure(response'[1], "Parse")
                               \/ IsFailure(response'[1], "ChessRules")
                       [] OTHER -> pc' = "send" /\ IsFailure(response'[1], e)))]_vars

\* dispatch has returned Err(PoisonedHandle) after a BadHandle went out as a response.
C17_Witness ==
    /\ pc = "returned" /\ fatal_error[1].error = "PoisonedHandle"
    /\ \E i \in DOMAIN stdout : IsFailure(stdout[i], "BadHandle")

Fatal == pc = "returned" /\ fatal_error[1].error = "PoisonedHandle"

\* C18: when handling a request yields PoisonedHandle the loop stops: no further line
\* is read or dispatched, exactly one more response is written, an error response of
\* kind PoisonedHandle with empty changed_games, and the process then ends.
C18_PoisonedStops ==
    /\ [][(Fatal => (/\ pc' = "exited"
                      /\ Written # NoneOpt
                      /\ stdout' = Append(stdout, Written[1])
                      /\ IsFailure(Written[1], "PoisonedHandle")
                      /\ UNCHANGED <<inner, stdin_lines, new_line, response>>))
           /\ (pc = "exited" => FALSE)]_vars
    /\ Fatal ~> (pc = "exited")

\* The process has ended on a PoisonedHandle with lines still to come.
C18_Witness ==
    /\ pc = "exited" /\ fatal_error[1].error = "PoisonedHandle"
    /\ IsFailure(stdout[Len(stdout)], "PoisonedHandle")
    /\ \A i \in 1..(Len(stdout) - 1) : stdout[i].error = NoneOpt
    /\ stdin_lines.read < MaxLines

\* C19: a line that does not decode as a request is answered by exactly one
\* Deserialize error response with empty changed_games, leaves the State as it was,
\* and leaves the loop running, so that what follows is handled as it would have
\* been without it.
C19_BadLineIsAnswered ==
    [][(pc \in {"dispatch", "send"} /\ ~Request_from_str(new_line[1]).ok /\ pc' # pc) =>
        /\ inner' = inner
        /\ UNCHANGED <<fatal_error, stdin_lines>>
        /\ pc = "dispatch" =>
              /\ pc' = "send"
              /\ response' = Some([error |-> Some([type |-> "Deserialize",
                                                  game_id |-> NoneOpt]),
                                   changed_games |-> <<>>])
              /\ stdout' = stdout
        /\ pc = "send" =>
              /\ pc' = "loop"
              /\ IsFailure(response[1], "Deserialize")
              /\ stdout' = Append(stdout, response[1])]_vars

\* A bad line was answered and a request after it succeeded.
C19_Witness ==
    /\ pc = "loop"
    /\ \E i, j \in DOMAIN stdout :
          /\ i < j
          /\ IsFailure(stdout[i], "Deserialize")
          /\ IsSuccess(stdout[j]) /\ stdout[j].changed_games # <<>>

\* C20: each line read is answered by exactly one response and the responses go out
\* in the order of the lines: a line is read and dispatched only when no response is
\* waiting to be written, the response to it is written after all that was written
\* before, once, before the next line is read; and as long as the input has not
\* ended, the output holds the initial message and one response for each line before
\* the one in hand.
C20_OneResponsePerLineInOrder ==
    [][/\ pc = "loop" /\ pc' = "dispatch" =>
              /\ response = NoneOpt /\ stdout' = stdout
              /\ ~stdin_lines'.eof => Len(stdout) = stdin_lines.read + 1
       /\ pc = "dispatch" /\ pc' # pc =>
              /\ response = NoneOpt /\ stdout' = stdout
              /\ ~stdin_lines.eof => Len(stdout) = stdin_lines.read
       /\ pc = "send" /\ pc' # pc =>
              /\ stdout' = Append(stdout, response[1])
              /\ pc' = "loop" /\ response' = NoneOpt /\ new_line' = NoneOpt
              /\ ~stdin_lines.eof => Len(stdout') = stdin_lines.read + 1
       /\ (pc = "returned" /\ pc' # pc /\ new_line # NoneOpt) =>
              /\ stdout' = Append(stdout, response_from_error(fatal_error[1]))
              /\ pc' = "exited"
              /\ ~stdin_lines.eof => Len(stdout') = stdin_lines.read + 1
       /\ stdout' # stdout =>
              /\ Len(stdout') = Len(stdout) + 1
              /\ \A i \in DOMAIN stdout : stdout'[i] = stdout[i]]_vars

\* Three lines were read and answered, each in a different way.
C20_Witness ==
    /\ pc = "loop" /\ stdin_lines.read = 3 /\ ~stdin_lines.eof
    /\ Len(stdout) = 4
    /\ IsFailure(stdout[2], "BadHandle")
    /\ IsSuccess(stdout[3])
    /\ IsFailure(stdout[4], "Deserialize")

\* C21: when the input reaches its end the handler stops: it answers no line that was
\* never sent, so that past the initial message and the responses to the lines read
\* at most one more response (a last one, on the way out) is ever written.
C21_NothingWrittenAfterEof ==
    stdin_lines.eof => Len(stdout) <= 1 + stdin_lines.read + 1

\* C26: every error of a play or navigate_back on id carries id in its game_id:
\* BadHandle, StaleHandle and PoisonedHandle, and the Parse and ChessRules errors of
\* play on a present game.
C26_ErrorCarriesId ==
    [][pc = "dispatch" /\ pc' # pc =>
        Bind(Request_from_str(new_line[1]), LAMBDA request :
            (request.ok /\ request.request.method \in {"play", "navigate_back"}) =>
                /\ pc' = "returned" => fatal_error'[1].id = Some(request.request.id)
                /\ (pc' = "send" /\ response'[1].error # NoneOpt) =>
                      response'[1].error[1].game_id = Some(request.request.id))]_vars

\* The (id, GameRepr) entries of a response, as a set.
Entries(message) == {message.changed_games[i] : i \in DOMAIN message.changed_games}

\* C27: get_all_games and the making of the views are read-only: the call leaves the
\* ids, which of them are closed, and every game's initial_position, current_line and
\* game_tree as they were, and two calls in a row return the same set of entries.
C27_GetAllGamesReadOnly ==
    [][called'.op = "get_all_games" =>
        /\ inner' = inner
        /\ called'.result = "Ok"
        /\ Entries(called'.response[1])
             = {[id |-> k, game |-> get_repr(inner[k][1].data)] : k \in PresentIds(inner)}
        /\ called.op = "get_all_games" =>
              Entries(called'.response[1]) = Entries(called.response[1])]_vars

\* get_all_games twice in a row, in two orders, on a map with two games of which one
\* has moved on.
C27_Witness ==
    /\ called.op = "get_all_games"
    /\ Len(called.response[1].changed_games) = 2
    /\ called.response[1].changed_games[1].id = <<"g">>
    /\ \E k \in DOMAIN inner : IsPresent(inner, k) /\ inner[k][1].data.current_line # <<>>

\* C29: every key of the map is a non-empty string: no call, new_game with an empty
\* id included, stores a game under the empty id.
C29_NoEmptyKey == \A k \in DOMAIN inner : k # <<>>

\* The lowercase snake_case name of each kind of error.
SnakeCaseName(error_type) ==
    CASE error_type = "Deserialize" -> <<"d", "e", "s", "e", "r", "i", "a", "l", "i", "z", "e">>
      [] error_type = "Parse" -> <<"p", "a", "r", "s", "e">>
      [] error_type = "ChessRules" -> <<"c", "h", "e", "s", "s", "_", "r", "u", "l", "e", "s">>
      [] error_type = "BadHandle" -> <<"b", "a", "d", "_", "h", "a", "n", "d", "l", "e">>
      [] error_type = "StaleHandle" ->
            <<"s", "t", "a", "l", "e", "_", "h", "a", "n", "d", "l", "e">>
      [] error_type = "PoisonedHandle" ->
            <<"p", "o", "i", "s", "o", "n", "e", "d", "_", "h", "a", "n", "d", "l", "e">>
      [] error_type = "IO" -> <<"i", "o">>

\* C30: the type field of an error, as it is written, is the lowercase snake_case
\* name of its kind: deserialize, parse, chess_rules, bad_handle, stale_handle,
\* poisoned_handle, io.
C30_TypeIsSnakeCase ==
    \A i \in DOMAIN stdout :
        stdout[i].error # NoneOpt =>
            Serialize_ErrorType(stdout[i].error[1].type) = SnakeCaseName(stdout[i].error[1].type)

---------------------------------------------------------------------------
(* Claims about the threads.                                               *)

\* Thread t is inside the critical section of a game: it runs the closure on it or
\* makes its view.
InCriticalSection(t) == threads[t].pc \in {"closure", "get_repr", "walk_repr"}

\* C22: with threads calling play, navigate_back, new_game and get_all_games through
\* clones of one handle, at most one operation is inside the critical section of a
\* given game: a thread that mutates or reads a game holds the guard of that game,
\* and no two threads hold the guard of the same game.
C22_OneOperationPerGame ==
    \A t \in Threads :
        /\ InCriticalSection(t) =>
              /\ threads[t].game # NoneOpt
              /\ threads[t].map # "none"
              /\ IsGameOperation(threads[t].closure[1]) =>
                    threads[t].game = Some(threads[t].closure[1].id)
        /\ \A u \in Threads \ {t} :
              threads[t].game # NoneOpt => threads[u].game # threads[t].game

\* Two threads contend for one game: one is inside its critical section, the other
\* has asked for the same game and waits.
C22_Witness ==
    \E t, u \in Threads :
        /\ t # u
        /\ threads[t].pc = "closure"
        /\ threads[u].pc = "get_game"
        /\ threads[u].closure[1].id = threads[t].closure[1].id

\* Thread t is in a play or navigate_back and cannot take its next lock.
Waits(t) ==
    /\ threads[t].closure # NoneOpt
    /\ IsGameOperation(threads[t].closure[1])
    /\ \/ threads[t].pc = "called" /\ ~RwLock_read(threads)
       \/ /\ threads[t].pc = "get_game"
          /\ IsPresent(inner, threads[t].closure[1].id)
          /\ ~Mutex_lock(threads, threads[t].closure[1].id)

\* C23: a play or navigate_back never waits for an operation on another game: when
\* it waits, another thread holds the map exclusively or holds the guard of the
\* same game.  So two of them on different present ids hold their guards together.
C23_WaitsOnlyForSameGame ==
    \A t \in Threads :
        Waits(t) =>
            \E u \in Threads \ {t} :
                \/ threads[u].map = "write"
                \/ threads[u].game = Some(threads[t].closure[1].id)

\* Two threads are each inside the critical section of a different game.
C23_Witness ==
    \E t, u \in Threads :
        /\ threads[t].pc \in {"closure", "get_repr"}
        /\ threads[u].pc \in {"closure", "get_repr"}
        /\ threads[t].map = "read" /\ threads[u].map = "read"
        /\ threads[t].game # NoneOpt /\ threads[u].game # NoneOpt
        /\ threads[t].game # threads[u].game

\* C24: while a new_game or get_all_games is between acquiring and releasing the
\* map, no play or navigate_back is in progress on any game and no other new_game
\* or get_all_games is: every other thread holds no guard at all.
C24_StateOperationExcludesAll ==
    \A t \in Threads :
        threads[t].pc \in {"state_closure", "walk", "walk_repr"} =>
            /\ threads[t].map = "write"
            /\ \A u \in Threads \ {t} :
                  /\ threads[u].map = "none"
                  /\ threads[u].game = NoneOpt
                  /\ threads[u].pc \in {"idle", "called", "panicked"}

\* A get_all_games is in the middle of its walk while a play has been called and
\* waits for the map.
C24_Witness ==
    \E t, u \in Threads :
        /\ threads[t].pc = "walk_repr"
        /\ threads[t].closure[1].op = "get_all_games"
        /\ threads[u].pc = "called"
        /\ threads[u].closure[1].op = "play"

\* The present games of state whose lock is poisoned.
PoisonedIds(state) == {k \in PresentIds(state) : state[k][1].poisoned}

\* C25 as stated: if the guard of any present game is poisoned, every state-wide
\* operation fails with PoisonedHandle: whatever new_game or get_all_games takes the
\* map while a present game is poisoned returns that error.
C25_PoisonedFailsEveryStateOperation ==
    [][\A t \in Threads :
          (threads[t].pc = "called" /\ threads'[t].map = "write"
           /\ PoisonedIds(inner) # {}) =>
              \A order \in Orders :
                  state_operation(inner, threads[t].closure[1], order).result
                      = "PoisonedHandle"]_vars

\* C25: a new_game or get_all_games fails as a whole with PoisonedHandle, without
\* any game in its answer, exactly when a present game is poisoned once the
\* operation has made its own change to the map (a new_game puts a fresh game in
\* the place of a poisoned one); else it answers with every present game.  The walk
\* yields the error once and nothing after it.  A play or navigate_back on a
\* poisoned id fails with PoisonedHandle on that id.
C25_PoisonedFailsTheWalk ==
    [][/\ called'.op \in {"new_game_default", "get_all_games"} =>
            IF PoisonedIds(inner') # {}
            THEN /\ called'.result = "PoisonedHandle"
                 /\ called'.response = NoneOpt
            ELSE /\ called'.result = "Ok"
                 /\ {e.id : e \in Entries(called'.response[1])} = PresentIds(inner')
                 /\ Len(called'.response[1].changed_games) = Cardinality(PresentIds(inner'))
       /\ \A t \in Threads :
            threads[t].pc = "walk" =>
                Bind(GamesIterator_next(inner, threads[t].keys), LAMBDA n :
                    (n.item # NoneOpt /\ ~n.item[1].ok) =>
                        /\ threads'[t] \in {threads[t], IdleThread}
                        /\ GamesIterator_next(inner, n.keys).item = NoneOpt)
       /\ (called'.op \in {"play", "navigate_back"} /\ called'.id \in PoisonedIds(inner)) =>
            /\ called'.result = "PoisonedHandle"
            /\ called'.error_id = Some(called'.id)
            /\ inner' = inner]_vars

\* A get_all_games has failed with PoisonedHandle on a map that holds a game that is
\* not poisoned next to the poisoned one.
C25_Witness ==
    /\ called.op = "get_all_games"
    /\ called.result = "PoisonedHandle"
    /\ PoisonedIds(inner) # {}
    /\ PresentIds(inner) \ PoisonedIds(inner) # {}

---------------------------------------------------------------------------
(* Claims about the native backend.                                        *)

\* The cells of the vector that hold a game (indices count from 0).
NativePresent(state) == {i \in 0..(Len(state) - 1) : state[i + 1] # NoneOpt}

\* C28: in the native backend get_all_games returns one response for every game
\* that has not been deleted: exactly those games, each once.
C28_YieldsEveryGameOnce ==
    native_called.op = "get_all_games" =>
        /\ Len(native_called.games) = Cardinality(NativePresent(native_inner))
        /\ {native_called.games[i] : i \in DOMAIN native_called.games}
             = {native_inner[k + 1][1] : k \in NativePresent(native_inner)}

---------------------------------------------------------------------------
(* Claims about the derived view.                                          *)

\* The last move of line, played from starting_position, lands on a square that
\* holds a piece in the position it is played from.
LastMoveTakes(starting_position, line) ==
    /\ line # <<>>
    /\ Bind(shakmaty_position(starting_position, SubSeq(line, 1, Len(line) - 1)).pos,
            LAMBDA last_pos :
                \E m \in legals(last_pos) :
                    /\ SanPlus_from_move(last_pos, m) = line[Len(line)]
                    /\ last_pos.board[m.to] # Empty)

\* C31: is_takes of the view is true exactly when the last move of current_line is a
\* capture in the position it was played from, and false when current_line is empty:
\* after navigate_back it tells of the move that now ends current_line, and it is
\* false at the root and on a game just made.
C31_IsTakesIsLastMove ==
    get_repr(Self).is_takes = LastMoveTakes(initial_position, current_line)

\* navigate_back has left current_line ending in a capture, and the move it undid was
\* none.
C31_Witness ==
    /\ last.op = "navigate_back"
    /\ Len(before) > Len(current_line)
    /\ get_repr(Self).is_takes
    /\ ~LastMoveTakes(initial_position, before)

\* from and to name a legal pawn move to the last rank of pos but for the promotion
\* piece, which they leave out.
NeedsPromotion(from, to, pos) ==
    \E m \in legals(pos) :
        /\ m.promotion # None
        /\ Square_to_string(m.from) = from
        /\ Square_to_string(m.to) = to

\* C32: play with a from and a to that are a legal pawn move to the last rank, except
\* that they name no promotion piece, fails with an error of kind Parse and leaves
\* the Game unchanged.
C32_PromotionWithoutPieceIsParse ==
    \A from \in FromInputs, to \in ToInputs :
        NeedsPromotion(from, to, current_position(Self)) =>
            Bind(play(Self, from, to), LAMBDA r : r.result = "Parse" /\ r.game = Self)

---------------------------------------------------------------------------
(* More claims about the State.                                            *)

\* C33: a play or navigate_back on id, successful or failed, changes only the game
\* it names: the ids of the map, which of them are closed, and the game of every
\* other id are the same as before.
C33_SingleGameOperationFrame ==
    [][called'.op \in {"play", "navigate_back"} =>
          /\ DOMAIN inner' = DOMAIN inner
          /\ \A k \in DOMAIN inner :
                /\ (inner'[k] = NoneOpt) = (inner[k] = NoneOpt)
                /\ k # called'.id => inner'[k] = inner[k]]_vars

\* A navigate_back on one game has walked it back while another game stands at a
\* move of its own.
C33_Witness ==
    /\ called.op = "navigate_back"
    /\ called.result = "Ok"
    /\ IsPresent(inner, called.id)
    /\ \E k \in DOMAIN inner \ {called.id} :
          IsPresent(inner, k) /\ inner[k][1].data.current_line # <<>>

---------------------------------------------------------------------------
(* More claims about the threads.                                          *)

\* C34: the view a play or navigate_back returns is made under the same hold on the
\* game as the change: the closure leaves the game as it made it, no step of any
\* thread changes the game between the closure and the view, and the response is the
\* view of that game with its id.  So with other operations on the same id, the view
\* is of the state this operation produced.
C34_ViewIsOfOwnChange ==
    [][\A t \in Threads :
          /\ (threads[t].pc = "closure" /\ threads'[t].pc = "get_repr") =>
                inner'[threads[t].closure[1].id][1].data
                    = game_closure(threads[t].closure[1],
                                   inner[threads[t].closure[1].id][1].data).game
          /\ (threads[t].pc = "get_repr" /\ threads'[t].pc = "get_repr") =>
                inner'[threads[t].closure[1].id] = inner[threads[t].closure[1].id]
          /\ (threads[t].pc = "get_repr" /\ threads'[t].pc # "get_repr") =>
                /\ called'.result = "Ok"
                /\ called'.thread = t
                /\ called'.response
                     = Some(response_from_game(
                                threads[t].closure[1].id,
                                get_repr(inner[threads[t].closure[1].id][1].data)))
                /\ inner' = inner]_vars

\* A play has returned its view while another thread, which asked for the same game,
\* waited for it.
C34_Witness ==
    /\ called.op = "play"
    /\ called.result = "Ok"
    /\ \E u \in Threads :
          /\ threads[u].pc = "get_game"
          /\ threads[u].closure[1].id = called.id

\* The guard of a game is held only together with a guard of the map, and by an
\* operation that holds no other game's guard.
LockDiscipline ==
    \A t \in Threads :
        /\ threads[t].game # NoneOpt => threads[t].map # "none"
        /\ threads[t].pc \in {"get_game", "walk"} => threads[t].game = NoneOpt

\* Whenever an operation is in progress, some operation in progress can take its
\* next step.
SomeoneCanStep == (\E t \in Threads : threads[t].pc # "idle") => \E t \in Threads : CanStep(t)

C36_ReplayNeverPanics ==
    /\ shakmaty_position(initial_position, current_line).ok
    /\ (current_line # <<>> =>
            Bind(last_and_current_position(Self).maybe_last[1], LAMBDA last_move :
                San_to_move(last_move.san.san, last_move.pos).ok))
    /\ last.result # "panic"

\* A line of two moves or more whose last move had to be disambiguated or was a
\* promotion, reached by a play.
C36_Witness ==
    /\ last.op = "play" /\ last.result = "Ok"
    /\ Len(current_line) >= 2
    /\ \E i \in DOMAIN current_line :
            current_line[i].san.file # 0 \/ current_line[i].san.promotion # None

\* C36, in the State: no call leaves a game's mutex poisoned and none returns
\* PoisonedHandle.
C36_NeverPoisoned ==
    /\ called.result \notin {"panic", "PoisonedHandle"}
    /\ \A id \in DOMAIN inner : inner[id] # NoneOpt => ~inner[id][1].poisoned

\* C37: before it reads any input line the handler writes exactly one response, the
\* result of get_all_games on the initial State, which for the fresh State has no
\* error and no changed game; nothing is read and nothing else is written before
\* it, and every later response is written after it.
C37_InitialMessageFirst ==
    /\ [](pc = "start" =>
            stdout = <<>> /\ stdin_lines = [read |-> 0, eof |-> FALSE] /\ new_line = NoneOpt)
    /\ [](pc # "start" =>
            /\ stdout # <<>>
            /\ stdout[1] = [error |-> NoneOpt, changed_games |-> <<>>]
            /\ \A order \in Orders :
                    stdout[1] = StateHandle_get_all_games(HashMap_new, order).response[1])
    /\ []((pc = "loop" /\ stdin_lines = [read |-> 0, eof |-> FALSE]) => Len(stdout) = 1)
    /\ [][(stdin_lines' # stdin_lines \/ (new_line = NoneOpt /\ new_line' # NoneOpt)) =>
                Len(stdout) >= 1 /\ stdout' = stdout]_vars
    /\ [][stdout # <<>> =>
                /\ Len(stdout') >= Len(stdout)
                /\ SubSeq(stdout', 1, Len(stdout)) = stdout]_vars

\* Two lines have been read and answered, the second answer carrying an error: the
\* initial message and both answers are on the stream.
C37_Witness ==
    /\ pc = "loop" /\ stdin_lines.read = 2
    /\ Len(stdout) = 3
    /\ stdout[3].error # NoneOpt

=============================================================================
